---- MODULE Spec2Model ----
(***************************************************************************)
(* A model of the pull-request review engine (reviews/review_engine.py)    *)
(* and of the rows it reads and writes (reviews/models.py).  Python        *)
(* strings are TLA+ strings, Python lists are sequences, Python dicts are  *)
(* functions whose DOMAIN is the set of keys that are present.             *)
(***************************************************************************)
EXTENDS Integers, Sequences, FiniteSets, TLC

(***************************************************************************)
(* Bounds of the model.                                                    *)
(***************************************************************************)
MaxFiles == 2
MaxCommits == 2
MaxFindings == 6
MaxScore == 20
MaxDiffLines == 3

(***************************************************************************)
(* Python string helpers.                                                  *)
(***************************************************************************)
Min(a, b) == IF a <= b THEN a ELSE b
Max(a, b) == IF a >= b THEN a ELSE b

\* s[i] for a 1-based index inside the string.
CharAt(s, i) == SubSeq(s, i, i)

\* s[:n]
Prefix(s, n) == SubSeq(s, 1, Min(n, Len(s)))

\* s[n:] for a 0-based n.
DropFirst(s, n) == IF n >= Len(s) THEN "" ELSE SubSeq(s, n + 1, Len(s))

\* s.startswith(p)
StartsWith(s, p) == Len(p) <= Len(s) /\ SubSeq(s, 1, Len(p)) = p

\* p in s
Contains(s, p) ==
    \E i \in 0..(Len(s) - Len(p)) : SubSeq(s, i + 1, i + Len(p)) = p

UpperLetters == "ABCDEFGHIJKLMNOPQRSTUVWXYZ"
LowerLetters == "abcdefghijklmnopqrstuvwxyz"
Digits == "0123456789"

\* The characters of a string, as a set.
CharsOf(s) == { CharAt(s, i) : i \in 1..Len(s) }

\* The 1-based position of c in a string that holds it once.
IndexIn(s, c) == CHOOSE i \in 1..Len(s) : CharAt(s, i) = c

UpperSet == CharsOf(UpperLetters)
LowerSet == CharsOf(LowerLetters)
DigitSet == CharsOf(Digits)

LowerOf == [c \in UpperSet |-> CharAt(LowerLetters, IndexIn(UpperLetters, c))]
UpperOf == [c \in LowerSet |-> CharAt(UpperLetters, IndexIn(LowerLetters, c))]
DigitValue == [c \in DigitSet |-> IndexIn(Digits, c) - 1]

IsDigit(c) == c \in DigitSet
IsWordChar(c) == c \in DigitSet \/ c \in LowerSet \/ c \in UpperSet \/ c = "_"
IsSpace(c) == c \in {" ", "\t", "\n", "\r"}

LowerChar(c) == IF c \in UpperSet THEN LowerOf[c] ELSE c
UpperChar(c) == IF c \in LowerSet THEN UpperOf[c] ELSE c

RECURSIVE Lower(_)
\* s.lower(), one half of the string after the other.
Lower(s) ==
    IF Len(s) <= 1 THEN LowerChar(s)
    ELSE Lower(SubSeq(s, 1, Len(s) \div 2))
            \o Lower(SubSeq(s, (Len(s) \div 2) + 1, Len(s)))

RECURSIVE Upper(_)
\* s.upper()
Upper(s) ==
    IF Len(s) <= 1 THEN UpperChar(s)
    ELSE Upper(SubSeq(s, 1, Len(s) \div 2))
            \o Upper(SubSeq(s, (Len(s) \div 2) + 1, Len(s)))

RECURSIVE Fnmatch(_, _)
\* fnmatch.fnmatch(name, pat) on a POSIX host, for patterns without a
\* bracket expression: * matches any run of characters, ? exactly one.
Fnmatch(name, pat) ==
    IF pat = "" THEN name = ""
    ELSE IF Head(pat) = "*"
         THEN Fnmatch(name, Tail(pat))
                \/ (name # "" /\ Fnmatch(Tail(name), pat))
    ELSE IF name = "" THEN FALSE
    ELSE IF Head(pat) = "?" THEN Fnmatch(Tail(name), Tail(pat))
    ELSE Head(pat) = Head(name) /\ Fnmatch(Tail(name), Tail(pat))

\* x in xs, for a Python list xs.
InSeq(x, xs) == \E i \in 1..Len(xs) : xs[i] = x

RECURSIVE SumSeq(_)
SumSeq(xs) == IF xs = <<>> THEN 0 ELSE Head(xs) + SumSeq(Tail(xs))

\* d.get(k, default) for a dict d.
Get(d, k, default) == IF k \in DOMAIN d THEN d[k] ELSE default

\* The empty dict {}.
EmptyDict == [k \in {} |-> 0]

\* Python truthiness of a dict.
Truthy(d) == DOMAIN d # {}

(***************************************************************************)
(* ReviewEngine: class constants.                                          *)
(***************************************************************************)
Check(name, description, weight) ==
    [name |-> name, description |-> description, weight |-> weight]

DEFAULT_EXPECTATIONS ==
    [feature |->
        [checks |-> <<
            Check("has_tests", "New features should include tests", 20),
            Check("has_documentation", "Features should be documented", 15),
            Check("reasonable_size", "PR should be reasonably sized (< 500 lines)", 10),
            Check("descriptive_commits", "Commits should be descriptive", 10),
            Check("no_debug_code", "No debug/console statements", 15),
            Check("follows_conventions", "Follows coding conventions", 15),
            Check("has_description", "PR has a meaningful description", 15) >>,
         max_files |-> 20, max_lines |-> 500],
     bugfix |->
        [checks |-> <<
            Check("has_regression_test", "Bug fixes should include regression tests", 25),
            Check("focused_changes", "Changes should be focused on the fix", 20),
            Check("references_issue", "Should reference an issue or bug ID", 15),
            Check("reasonable_size", "Bug fixes should be small and focused", 15),
            Check("has_description", "PR describes the bug and fix", 25) >>,
         max_files |-> 10, max_lines |-> 200],
     hotfix |->
        [checks |-> <<
            Check("minimal_changes", "Hotfixes should be minimal", 30),
            Check("critical_only", "Only critical changes allowed", 25),
            Check("has_description", "Clear description of the critical issue", 25),
            Check("no_new_features", "No new features in hotfixes", 20) >>,
         max_files |-> 5, max_lines |-> 100],
     release |->
        [checks |-> <<
            Check("version_bump", "Version should be updated", 25),
            Check("changelog_updated", "Changelog should be updated", 25),
            Check("no_new_features", "No new features in release branches", 25),
            Check("documentation_updated", "Documentation should be current", 25) >>,
         max_files |-> 15, max_lines |-> 300],
     refactor |->
        [checks |-> <<
            Check("has_tests", "Refactoring should maintain or improve tests", 25),
            Check("no_behavior_change", "Should not change behavior", 25),
            Check("improves_quality", "Should improve code quality", 25),
            Check("has_description", "Clear description of refactoring goals", 25) >>,
         max_files |-> 30, max_lines |-> 1000],
     other |->
        [checks |-> <<
            Check("has_description", "PR has a description", 25),
            Check("reasonable_size", "PR is reasonably sized", 25),
            Check("descriptive_commits", "Commits are descriptive", 25),
            Check("follows_conventions", "Follows project conventions", 25) >>,
         max_files |-> 20, max_lines |-> 500]]

TEST_PATTERNS ==
    << "*test*.py", "*_test.py", "test_*.py",
       "*spec*.js", "*test*.js", "*.spec.ts", "*.test.ts",
       "*Test.java", "*Tests.java",
       "*_test.go", "*_test.rb" >>

DOC_PATTERNS ==
    << "*.md", "*.rst", "*.txt", "docs/*", "documentation/*",
       "README*", "CHANGELOG*", "CONTRIBUTING*" >>

\* The regular expressions of DEBUG_PATTERNS are escaped literals: each is
\* given here as the text it matches.
DEBUG_PATTERNS ==
    << "console.log(", "print(", "debugger;", "binding.pry", "import pdb",
       "pdb.set_trace()", "console.debug(", "System.out.println(" >>

(***************************************************************************)
(* ReviewEngine.get_branch_type                                            *)
(***************************************************************************)
BranchPrefixes ==
    << [tag |-> "feature",  prefixes |-> <<"feature/", "feat/", "features/">>],
       [tag |-> "bugfix",   prefixes |-> <<"bugfix/", "bug/", "fix/">>],
       [tag |-> "hotfix",   prefixes |-> <<"hotfix/", "hot/", "emergency/">>],
       [tag |-> "release",  prefixes |-> <<"release/", "releases/", "rel/">>],
       [tag |-> "refactor", prefixes |-> <<"refactor/", "refactoring/", "cleanup/">>] >>

\* get_branch_type without the .lower()
BranchTypeOfExactCase(branch_name) ==
    LET hit(i) == \E j \in 1..Len(BranchPrefixes[i].prefixes) :
                      StartsWith(branch_name, BranchPrefixes[i].prefixes[j])
    IN  IF \E i \in 1..Len(BranchPrefixes) : hit(i)
        THEN BranchPrefixes[CHOOSE i \in 1..Len(BranchPrefixes) :
                                hit(i) /\ \A k \in 1..(i - 1) : ~hit(k)].tag
        ELSE "other"

get_branch_type(branch_name) ==
    LET branch_lower == Lower(branch_name)
        hit(i) == \E j \in 1..Len(BranchPrefixes[i].prefixes) :
                      StartsWith(branch_lower, BranchPrefixes[i].prefixes[j])
    IN  IF \E i \in 1..Len(BranchPrefixes) : hit(i)
        THEN BranchPrefixes[CHOOSE i \in 1..Len(BranchPrefixes) :
                                hit(i) /\ \A k \in 1..(i - 1) : ~hit(k)].tag
        ELSE "other"

(***************************************************************************)
(* ReviewEngine.get_matching_branch_rule and get_expectations.             *)
(* A BranchRule row is [id, branch_pattern, repository, is_active,         *)
(* expectations]; repository = NoRepository is the null foreign key of a   *)
(* global rule.  BranchRule.Meta orders a query by branch_pattern and      *)
(* leaves the order of rows with equal patterns to the database, so the   *)
(* first match of a scan is any matching row whose pattern is least.       *)
(***************************************************************************)
NoRepository == 0
NoRule == 0

RECURSIVE StrLess(_, _)
\* a < b in the order of the characters' code points (the characters of
\* the model's patterns, in ASCII order).
CharOrder == "*-/0123456789?ABCDEFGHIJKLMNOPQRSTUVWXYZ_abcdefghijklmnopqrstuvwxyz"
CharRank == [c \in CharsOf(CharOrder) |-> IndexIn(CharOrder, c)]
StrLess(a, b) ==
    IF b = "" THEN FALSE
    ELSE IF a = "" THEN TRUE
    ELSE IF Head(a) = Head(b) THEN StrLess(Tail(a), Tail(b))
    ELSE CharRank[Head(a)] < CharRank[Head(b)]

\* The rows a scan of BranchRule.objects.filter(repository=repo,
\* is_active=True) can return first for this branch.
FirstMatches(rule_rows, repo, source_branch) ==
    LET matching == { r \in rule_rows :
                        /\ r.repository = repo
                        /\ r.is_active
                        /\ Fnmatch(source_branch, r.branch_pattern) }
    IN  { r \in matching :
            \A q \in matching : ~StrLess(q.branch_pattern, r.branch_pattern) }

\* The values get_matching_branch_rule can return: a rule id, or NoRule for
\* None.
GlobalRuleFirst(rule_rows, pull_request) ==
    LET global_rules == FirstMatches(rule_rows, NoRepository, pull_request.source_branch)
        repo_rules == FirstMatches(rule_rows, pull_request.repository,
                                   pull_request.source_branch)
    IN  IF global_rules # {} THEN { r.id : r \in global_rules }
        ELSE IF repo_rules # {} THEN { r.id : r \in repo_rules }
        ELSE { NoRule }

get_matching_branch_rule(rule_rows, pull_request) ==
    LET repo_first == FirstMatches(rule_rows, pull_request.repository,
                                   pull_request.source_branch)
        global_first == FirstMatches(rule_rows, NoRepository,
                                     pull_request.source_branch)
    IN  IF repo_first # {} THEN { r.id : r \in repo_first }
        ELSE IF global_first # {} THEN { r.id : r \in global_first }
        ELSE { NoRule }

RuleById(rule_rows, id) == CHOOSE r \in rule_rows : r.id = id

\* "if branch_rule:" in place of "if branch_rule and branch_rule.expectations:"
ExpectationsOfAnyRule(rule_rows, pull_request, rule_id) ==
    IF rule_id # NoRule
    THEN [origin |-> "rule", matched |-> rule_id,
          dict |-> RuleById(rule_rows, rule_id).expectations]
    ELSE [origin |-> "default", matched |-> rule_id,
          dict |-> DEFAULT_EXPECTATIONS[get_branch_type(pull_request.source_branch)]]

\* get_expectations, given the rule its own call of
\* get_matching_branch_rule returned.  Beside the dict it returns, the
\* result records that rule ("matched") and which return statement
\* produced the dict ("origin"): the rule's or the defaults table's.
get_expectations(rule_rows, pull_request, rule_id) ==
    IF rule_id # NoRule /\ Truthy(RuleById(rule_rows, rule_id).expectations)
    THEN [origin |-> "rule", matched |-> rule_id,
          dict |-> RuleById(rule_rows, rule_id).expectations]
    ELSE [origin |-> "default", matched |-> rule_id,
          dict |-> DEFAULT_EXPECTATIONS[get_branch_type(pull_request.source_branch)]]

(***************************************************************************)
(* ReviewEngine.analyze_files.  A changed file is [filename, additions,    *)
(* deletions].                                                             *)
(***************************************************************************)
MatchesAny(filename, patterns) ==
    LET lowered == Lower(filename)
    IN  \E i \in 1..Len(patterns) : Fnmatch(lowered, Lower(patterns[i]))

RECURSIVE LastDot(_, _)
\* The 1-based index of the last "." of s at or before position i, 0 if none.
LastDot(s, i) ==
    IF i = 0 THEN 0
    ELSE IF CharAt(s, i) = "." THEN i
    ELSE LastDot(s, i - 1)

\* filename.split('.')[-1] if '.' in filename else 'none'
FileExt(filename) ==
    LET d == LastDot(filename, Len(filename))
    IN  IF d = 0 THEN "none" ELSE DropFirst(filename, d)

EmptyFileAnalysis(files) ==
    [total_files |-> Len(files), total_additions |-> 0, total_deletions |-> 0,
     has_tests |-> FALSE, has_documentation |-> FALSE,
     file_types |-> EmptyDict,
     test_files |-> <<>>, doc_files |-> <<>>, source_files |-> <<>>]

\* One pass of the loop body of analyze_files.
AnalyzeFile(analysis, file) ==
    LET filename == file.filename
        ext == FileExt(filename)
        is_test == MatchesAny(filename, TEST_PATTERNS)
        is_doc == MatchesAny(filename, DOC_PATTERNS)
        test_files == IF is_test THEN Append(analysis.test_files, filename)
                      ELSE analysis.test_files
        doc_files == IF is_doc THEN Append(analysis.doc_files, filename)
                     ELSE analysis.doc_files
    IN  [total_files |-> analysis.total_files,
         total_additions |-> analysis.total_additions + file.additions,
         total_deletions |-> analysis.total_deletions + file.deletions,
         has_tests |-> analysis.has_tests \/ is_test,
         has_documentation |-> analysis.has_documentation \/ is_doc,
         file_types |-> [e \in (DOMAIN analysis.file_types) \cup {ext} |->
                            Get(analysis.file_types, e, 0)
                                + (IF e = ext THEN 1 ELSE 0)],
         test_files |-> test_files,
         doc_files |-> doc_files,
         source_files |->
            IF ~InSeq(filename, test_files) /\ ~InSeq(filename, doc_files)
            THEN Append(analysis.source_files, filename)
            ELSE analysis.source_files]

RECURSIVE AnalyzeFilesFrom(_, _)
AnalyzeFilesFrom(analysis, files) ==
    IF files = <<>> THEN analysis
    ELSE AnalyzeFilesFrom(AnalyzeFile(analysis, Head(files)), Tail(files))

analyze_files(files) == AnalyzeFilesFrom(EmptyFileAnalysis(files), files)

(***************************************************************************)
(* ReviewEngine.analyze_diff.  The diff is text; NoFile is the None that   *)
(* current_file holds before the first "+++ b/" line.                      *)
(***************************************************************************)
NoFile == "<None>"

\* The text an f-string renders current_file as.
FileText(file) == IF file = NoFile THEN "None" ELSE file

\* s.split(sep) for a one-character sep: the pieces between the
\* occurrences of sep, in order.
Split(s, sep) ==
    LET cuts == { i \in 1..Len(s) : CharAt(s, i) = sep } \cup { Len(s) + 1 }
        end(k) == CHOOSE p \in cuts : Cardinality({ q \in cuts : q < p }) = k - 1
        start(k) == IF k = 1 THEN 1 ELSE end(k - 1) + 1
    IN  [k \in 1..Cardinality(cuts) |->
            IF start(k) >= end(k) THEN "" ELSE SubSeq(s, start(k), end(k) - 1)]

RECURSIVE LStrip(_)
LStrip(s) == IF s # "" /\ IsSpace(Head(s)) THEN LStrip(Tail(s)) ELSE s

RECURSIVE RStrip(_)
RStrip(s) ==
    IF s # "" /\ IsSpace(CharAt(s, Len(s)))
    THEN RStrip(SubSeq(s, 1, Len(s) - 1))
    ELSE s

\* s.strip()
Strip(s) == RStrip(LStrip(s))

RECURSIVE DigitRun(_)
\* The longest prefix of s made of digits.
DigitRun(s) ==
    IF s # "" /\ IsDigit(Head(s)) THEN Head(s) \o DigitRun(Tail(s)) ELSE ""

RECURSIVE ParseInt(_, _)
\* int(digits), acc the value read so far.
ParseInt(digits, acc) ==
    IF digits = "" THEN acc
    ELSE ParseInt(Tail(digits), 10 * acc + DigitValue[Head(digits)])

\* The digits after the first "-" of the line: the old-file start of a hunk
\* header.
OldFileStart(line) ==
    LET at(i) == CharAt(line, i) = "-" /\ i < Len(line) /\ IsDigit(CharAt(line, i + 1))
    IN  IF \E i \in 1..Len(line) : at(i)
        THEN DigitRun(DropFirst(line, CHOOSE i \in 1..Len(line) :
                                          at(i) /\ \A k \in 1..(i - 1) : ~at(k)))
        ELSE ""

\* re.search(r'\+(\d+)', line): the digits of the first "+<digits>" of the
\* line, "" when there is none.
HunkStart(line) ==
    LET at(i) == CharAt(line, i) = "+" /\ i < Len(line) /\ IsDigit(CharAt(line, i + 1))
    IN  IF \E i \in 1..Len(line) : at(i)
        THEN DigitRun(DropFirst(line, CHOOSE i \in 1..Len(line) :
                                          at(i) /\ \A k \in 1..(i - 1) : ~at(k)))
        ELSE ""

\* re.search(pattern, added_content, re.IGNORECASE) for an escaped literal,
\* given added_content in lower case.
SearchLiteral(literal, lowered_content) == Contains(lowered_content, Lower(literal))

MarkerWords == << "TODO", "FIXME", "XXX", "HACK" >>

\* re.search(r'\b(TODO|FIXME|XXX|HACK)\b', added_content, re.IGNORECASE)
SearchMarker(content) ==
    \E w \in 1..Len(MarkerWords) :
        \E i \in 0..(Len(content) - Len(MarkerWords[w])) :
            /\ Upper(SubSeq(content, i + 1, i + Len(MarkerWords[w]))) = MarkerWords[w]
            /\ (i = 0 \/ ~IsWordChar(CharAt(content, i)))
            /\ (i + Len(MarkerWords[w]) = Len(content)
                  \/ ~IsWordChar(CharAt(content, i + Len(MarkerWords[w]) + 1)))

Occurrence(file, line, content) ==
    [file |-> file, line |-> line, content |-> Prefix(Strip(content), 100)]

\* The occurrences the loop over DEBUG_PATTERNS appends for one added line:
\* one for every pattern that matches it.
DebugHits(content, file, line) ==
    LET lowered == Lower(content)
        matching == SelectSeq(DEBUG_PATTERNS, LAMBDA p : SearchLiteral(p, lowered))
    IN  [i \in 1..Len(matching) |-> Occurrence(file, line, content)]

\* The scanner's state: the analysis dict, current_file and line_number.
DiffScanStart ==
    [has_debug_code |-> FALSE, debug_occurrences |-> <<>>,
     large_functions |-> <<>>, todos_added |-> <<>>,
     current_file |-> NoFile, line_number |-> 0]

\* One pass of the loop body of analyze_diff.
ScanDiffLine(st, line) ==
    IF StartsWith(line, "+++ b/")
    THEN [st EXCEPT !.current_file = DropFirst(line, 6), !.line_number = 0]
    ELSE IF StartsWith(line, "@@")
    THEN IF HunkStart(line) # ""
         THEN [st EXCEPT !.line_number = ParseInt(HunkStart(line), 0)]
         ELSE st
    ELSE IF StartsWith(line, "+") /\ ~StartsWith(line, "+++")
    THEN LET added_content == DropFirst(line, 1)
             hits == DebugHits(added_content, st.current_file, st.line_number)
         IN  [st EXCEPT
                !.has_debug_code = @ \/ hits # <<>>,
                !.debug_occurrences = @ \o hits,
                !.todos_added =
                    IF SearchMarker(added_content)
                    THEN Append(@, Occurrence(st.current_file, st.line_number,
                                              added_content))
                    ELSE @,
                !.line_number = @ + 1]
    ELSE st

RECURSIVE ScanDiffLines(_, _)
ScanDiffLines(st, lines) ==
    IF lines = <<>> THEN st
    ELSE ScanDiffLines(ScanDiffLine(st, Head(lines)), Tail(lines))

analyze_diff(diff) ==
    LET st == ScanDiffLines(DiffScanStart, Split(diff, "\n"))
    IN  [has_debug_code |-> st.has_debug_code,
         debug_occurrences |-> st.debug_occurrences,
         large_functions |-> st.large_functions,
         todos_added |-> st.todos_added]

(***************************************************************************)
(* ReviewEngine.analyze_commits.  A commit is [sha, message], the message  *)
(* being commit['commit']['message'].                                      *)
(***************************************************************************)
RECURSIVE SpaceRun(_)
\* The number of whitespace characters s starts with.
SpaceRun(s) == IF s # "" /\ IsSpace(Head(s)) THEN 1 + SpaceRun(Tail(s)) ELSE 0

\* closes? fixes? resolves? without the optional "s".
IssueVerbStems == << "close", "fixe", "resolve" >>

\* s starts with the verb, in any case.
StartsWithVerb(s, stem) ==
    Len(stem) <= Len(s) /\ Lower(SubSeq(s, 1, Len(stem))) = stem

\* The length of the match of issue_pattern at the start of s, 0 if it does
\* not match there:  #\d+ | (?:closes?|fixes?|resolves?)\s+#?\d+
\* (re.IGNORECASE).
IssueMatchLen(s) ==
    IF s # "" /\ Head(s) = "#" /\ DigitRun(Tail(s)) # ""
    THEN 1 + Len(DigitRun(Tail(s)))
    ELSE IF \E k \in 1..Len(IssueVerbStems) : StartsWithVerb(s, IssueVerbStems[k])
    THEN LET stem == IssueVerbStems[CHOOSE k \in 1..Len(IssueVerbStems) :
                                        StartsWithVerb(s, IssueVerbStems[k])]
             after_stem == DropFirst(s, Len(stem))
             plural == IF after_stem # "" /\ LowerChar(Head(after_stem)) = "s"
                       THEN 1 ELSE 0
             after_verb == DropFirst(after_stem, plural)
             spaces == SpaceRun(after_verb)
             after_space == DropFirst(after_verb, spaces)
             hash == IF after_space # "" /\ Head(after_space) = "#" THEN 1 ELSE 0
             digits == DigitRun(DropFirst(after_space, hash))
         IN  IF spaces >= 1 /\ digits # ""
             THEN Len(stem) + plural + spaces + hash + Len(digits)
             ELSE 0
    ELSE 0

RECURSIVE FindIssuesFrom(_, _)
\* The matches of issue_pattern in message at or after the 1-based position
\* from: the leftmost one, then those after its end.
FindIssuesFrom(message, from) ==
    LET starts == { i \in from..Len(message) :
                        IssueMatchLen(DropFirst(message, i - 1)) > 0 }
    IN  IF starts = {} THEN <<>>
        ELSE LET i == CHOOSE p \in starts : \A q \in starts : p <= q
                 n == IssueMatchLen(DropFirst(message, i - 1))
             IN  << SubSeq(message, i, i + n - 1) >> \o FindIssuesFrom(message, i + n)

\* issue_pattern.findall(message)
FindIssues(message) == FindIssuesFrom(message, 1)

\* message.split('\n')[0]
FirstLine(message) == Head(Split(message, "\n"))

\* len(first_line) > 10
IsDescriptiveAboveTen(first_line) == Len(first_line) > 10

\* len(first_line) >= 10
IsDescriptive(first_line) == Len(first_line) >= 10

EmptyCommitAnalysis(commits) ==
    [total_commits |-> Len(commits), descriptive_commits |-> 0,
     short_commits |-> 0, commits |-> <<>>,
     references_issues |-> FALSE, issue_references |-> <<>>]

\* One pass of the loop body of analyze_commits.
AnalyzeCommit(analysis, commit) ==
    LET message == commit.message
        first_line == FirstLine(message)
        commit_info == [sha |-> Prefix(commit.sha, 7),
                        message |-> Prefix(first_line, 100),
                        is_descriptive |-> IsDescriptive(first_line)]
        issues == FindIssues(message)
    IN  [total_commits |-> analysis.total_commits,
         descriptive_commits |-> analysis.descriptive_commits
                                   + (IF IsDescriptive(first_line) THEN 1 ELSE 0),
         short_commits |-> analysis.short_commits
                                   + (IF IsDescriptive(first_line) THEN 0 ELSE 1),
         commits |-> Append(analysis.commits, commit_info),
         references_issues |-> analysis.references_issues \/ issues # <<>>,
         issue_references |-> analysis.issue_references \o issues]

RECURSIVE AnalyzeCommitsFrom(_, _)
AnalyzeCommitsFrom(analysis, commits) ==
    IF commits = <<>> THEN analysis
    ELSE AnalyzeCommitsFrom(AnalyzeCommit(analysis, Head(commits)), Tail(commits))

analyze_commits(commits) == AnalyzeCommitsFrom(EmptyCommitAnalysis(commits), commits)

(***************************************************************************)
(* ReviewEngine.evaluate_expectations.  A check is a dict that may lack    *)
(* any of its keys; subscripting a missing key raises KeyError.            *)
(***************************************************************************)
RECURSIVE Join(_, _)
\* sep.join(xs)
Join(sep, xs) ==
    IF xs = <<>> THEN ""
    ELSE IF Len(xs) = 1 THEN Head(xs)
    ELSE Head(xs) \o sep \o Join(sep, Tail(xs))

\* xs[:n] for a list.
Take(xs, n) == SubSeq(xs, 1, Min(n, Len(xs)))

\* a / b >= 0.8 for the commit counts of a review (b >= 1): in double
\* arithmetic a / b >= 0.8 exactly when 5a >= 4b.
RatioAtLeastFourFifths(a, b) == 5 * a >= 4 * b

\* deletions >= additions * 0.3: for line counts the double product is on
\* the same side of every integer as 3 * additions / 10.
AtLeastThreeTenths(deletions, additions) == 10 * deletions >= 3 * additions

FeatureKeywords == << "add", "new", "implement", "create" >>
VersionFiles == << "package.json", "setup.py", "version.py", "VERSION", "pyproject.toml" >>
ChangelogFiles == << "CHANGELOG", "HISTORY", "CHANGES", "NEWS" >>

Verdict(passed, details) == [passed |-> passed, details |-> details]

\* The else branch with passed = False.
UnknownCheckFails == Verdict(FALSE, "Check not implemented")

\* The else branch of the chain: a name without a policy.
UnknownCheckVerdict == Verdict(TRUE, "Check not implemented")

\* The if/elif chain of evaluate_expectations: passed and details of one
\* check name.
CheckPolicy(check_name, max_files, max_lines, file_analysis, diff_analysis, commit_analysis, pr) ==
    LET total_changes == file_analysis.total_additions + file_analysis.total_deletions
        n_files == file_analysis.total_files
    IN
    CASE check_name = "has_tests" ->
            Verdict(file_analysis.has_tests,
                    "Test files found: " \o ToString(Len(file_analysis.test_files)))
      [] check_name = "has_documentation" ->
            Verdict(file_analysis.has_documentation,
                    "Documentation files: " \o ToString(Len(file_analysis.doc_files)))
      [] check_name = "has_regression_test" ->
            Verdict(file_analysis.has_tests,
                    IF file_analysis.has_tests THEN "Regression tests detected"
                    ELSE "No regression tests found")
      [] check_name = "reasonable_size" ->
            Verdict(total_changes <= max_lines /\ n_files <= max_files,
                    ToString(total_changes) \o " lines changed, "
                        \o ToString(n_files) \o " files")
      [] check_name = "focused_changes" ->
            Verdict(n_files <= max_files, ToString(n_files) \o " files changed")
      [] check_name = "minimal_changes" ->
            Verdict(n_files <= 5 /\ total_changes <= 100,
                    ToString(n_files) \o " files, " \o ToString(total_changes) \o " lines")
      [] check_name = "descriptive_commits" ->
            Verdict(RatioAtLeastFourFifths(commit_analysis.descriptive_commits,
                                           Max(commit_analysis.total_commits, 1)),
                    ToString(commit_analysis.descriptive_commits) \o "/"
                        \o ToString(commit_analysis.total_commits)
                        \o " descriptive commits")
      [] check_name = "no_debug_code" ->
            Verdict(~diff_analysis.has_debug_code,
                    IF diff_analysis.has_debug_code
                    THEN "Found " \o ToString(Len(diff_analysis.debug_occurrences))
                            \o " debug statements"
                    ELSE "No debug code found")
      [] check_name = "references_issue" ->
            Verdict(commit_analysis.references_issues,
                    IF commit_analysis.references_issues
                    THEN "Issues referenced: "
                            \o Join(", ", Take(commit_analysis.issue_references, 5))
                    ELSE "No issue references")
      [] check_name = "has_description" ->
            Verdict(Len(pr.description) >= 50,
                    "Description length: " \o ToString(Len(pr.description))
                        \o " characters")
      [] check_name = "no_new_features" ->
            LET has_feature ==
                    \E c \in 1..Len(commit_analysis.commits) :
                        \E k \in 1..Len(FeatureKeywords) :
                            Contains(Lower(commit_analysis.commits[c].message),
                                     FeatureKeywords[k])
            IN  Verdict(~has_feature,
                        IF has_feature THEN "Possible new features detected"
                        ELSE "No feature-like changes detected")
      [] check_name = "version_bump" ->
            LET has_version ==
                    \E f \in 1..Len(file_analysis.source_files) :
                        \E v \in 1..Len(VersionFiles) :
                            Contains(file_analysis.source_files[f], VersionFiles[v])
            IN  Verdict(has_version,
                        IF has_version THEN "Version file modified"
                        ELSE "No version file changes found")
      [] check_name = "changelog_updated" ->
            LET has_changelog ==
                    \E f \in 1..Len(file_analysis.doc_files) :
                        \E c \in 1..Len(ChangelogFiles) :
                            Contains(Upper(file_analysis.doc_files[f]), ChangelogFiles[c])
            IN  Verdict(has_changelog,
                        IF has_changelog THEN "Changelog updated"
                        ELSE "Changelog not updated")
      [] check_name = "no_behavior_change" ->
            Verdict(file_analysis.has_tests,
                    IF file_analysis.has_tests THEN "Tests present to verify behavior"
                    ELSE "Tests recommended for refactoring")
      [] check_name = "improves_quality" ->
            Verdict(AtLeastThreeTenths(file_analysis.total_deletions,
                                       file_analysis.total_additions),
                    "Removed " \o ToString(file_analysis.total_deletions) \o " lines")
      [] check_name = "follows_conventions" ->
            Verdict(TRUE, "Conventions check passed")
      [] check_name = "critical_only" ->
            Verdict(n_files <= 5, ToString(n_files) \o " files changed")
      [] check_name = "documentation_updated" ->
            Verdict(file_analysis.has_documentation,
                    "Documentation files: " \o ToString(Len(file_analysis.doc_files)))
      [] OTHER -> UnknownCheckVerdict

\* An exception leaving a call, in place of its return value.
Raised(exception) == [raised |-> TRUE, exception |-> exception]

\* The score without the "if passed:".
AddToScoreAlways(score, passed, check_weight) == score + check_weight

\* results['score'] after the "if passed:" of one check.
AddToScore(score, passed, check_weight) ==
    IF passed THEN score + check_weight ELSE score

\* One pass of the loop body of evaluate_expectations.
EvaluateCheck(results, check, max_files, max_lines, file_analysis, diff_analysis, commit_analysis, pr) ==
    IF results.raised THEN results
    ELSE IF "name" \notin DOMAIN check THEN Raised("KeyError: 'name'")
    ELSE LET check_name == check.name
             check_weight == Get(check, "weight", 10)
             verdict == CheckPolicy(check_name, max_files, max_lines, file_analysis,
                                    diff_analysis, commit_analysis, pr)
         IN  IF "description" \notin DOMAIN check
             THEN Raised("KeyError: 'description'")
             ELSE [raised |-> FALSE,
                   checks |-> Append(results.checks,
                                [name |-> check_name,
                                 description |-> check.description,
                                 passed |-> verdict.passed,
                                 weight |-> check_weight,
                                 details |-> verdict.details]),
                   score |-> AddToScore(results.score, verdict.passed, check_weight),
                   max_score |-> results.max_score + check_weight,
                   passed |-> results.passed + (IF verdict.passed THEN 1 ELSE 0),
                   failed |-> results.failed + (IF verdict.passed THEN 0 ELSE 1)]

RECURSIVE EvaluateFrom(_, _, _, _, _, _, _, _)
EvaluateFrom(results, checks, max_files, max_lines, file_analysis, diff_analysis, commit_analysis, pr) ==
    IF checks = <<>> THEN results
    ELSE EvaluateFrom(
            EvaluateCheck(results, Head(checks), max_files, max_lines,
                          file_analysis, diff_analysis, commit_analysis, pr),
            Tail(checks), max_files, max_lines, file_analysis, diff_analysis,
            commit_analysis, pr)

evaluate_expectations(expectations, file_analysis, diff_analysis, commit_analysis, pr) ==
    EvaluateFrom([raised |-> FALSE, checks |-> <<>>, score |-> 0,
                  max_score |-> 0, passed |-> 0, failed |-> 0],
                 Get(expectations, "checks", <<>>),
                 Get(expectations, "max_files", 20),
                 Get(expectations, "max_lines", 500),
                 file_analysis, diff_analysis, commit_analysis, pr)

(***************************************************************************)
(* ReviewEngine.generate_feedback and _get_suggestion.                     *)
(***************************************************************************)
NoSuggestion == "<None>"

Suggestions ==
    [has_tests |-> "Add unit tests for new functionality",
     has_documentation |-> "Add documentation or update README",
     has_regression_test |-> "Add a test that reproduces the bug to prevent regression",
     reasonable_size |-> "Consider splitting into smaller PRs",
     focused_changes |-> "Keep changes focused on the bug fix",
     minimal_changes |-> "Hotfixes should contain only critical changes",
     descriptive_commits |-> "Use descriptive commit messages (50+ characters)",
     no_debug_code |-> "Remove console.log, print, and debugger statements",
     references_issue |-> "Reference the issue number in commit message (e.g., \"Fixes #123\")",
     has_description |-> "Add a detailed PR description explaining the changes",
     no_new_features |-> "This branch type should not include new features",
     version_bump |-> "Update version number in package.json or similar",
     changelog_updated |-> "Update CHANGELOG.md with release notes",
     no_behavior_change |-> "Ensure tests verify behavior is unchanged",
     improves_quality |-> "Refactoring should simplify or clean up code",
     follows_conventions |-> "Follow project coding conventions",
     critical_only |-> "Limit hotfixes to critical issues only",
     documentation_updated |-> "Update documentation for release"]

get_suggestion(check_name) == Get(Suggestions, check_name, "Review and improve this aspect")

FeedbackItem(category, severity, title, message, suggestion) ==
    [category |-> category, severity |-> severity, title |-> title,
     message |-> message, suggestion |-> suggestion]

\* The item of a failed check.
FailedItem(check) ==
    FeedbackItem("expectation", "warning", check.description,
                 "[x] " \o check.description \o ": " \o check.details,
                 get_suggestion(check.name))

\* The item of a passed check.
PassedItem(check) ==
    FeedbackItem("expectation", "success", check.description,
                 "[v] " \o check.description \o ": " \o check.details,
                 NoSuggestion)

DebugItem(debug) ==
    FeedbackItem("code_quality", "error", "Debug code detected",
                 "Debug statement in " \o FileText(debug.file) \o " at line " \o ToString(debug.line),
                 "Remove debug statements before merging")

TodoItem(todo) ==
    FeedbackItem("code_quality", "info", "TODO comment added",
                 "TODO in " \o FileText(todo.file) \o " at line " \o ToString(todo.line)
                    \o ": " \o todo.content,
                 "Consider creating an issue to track this TODO")

SizeItem(total_changes, total_files) ==
    FeedbackItem("pr_size", "warning", "Large pull request",
                 "This PR has " \o ToString(total_changes) \o " lines changed across "
                    \o ToString(total_files) \o " files",
                 "Consider breaking large PRs into smaller, focused changes")

\* [check for check in checks if check['passed'] == passed]
ChecksWith(checks, passed) == SelectSeq(checks, LAMBDA c : c.passed = passed)

\* The number of findings of one kind generate_feedback reports.
FeedbackFindingLimit == 5

\* total_changes >= 500
IsLargePullRequestInclusive(total_changes) == total_changes >= 500

\* total_changes > 500
IsLargePullRequest(total_changes) == total_changes > 500

generate_feedback(evaluation, file_analysis, diff_analysis) ==
    LET failed == ChecksWith(evaluation.checks, FALSE)
        passed == ChecksWith(evaluation.checks, TRUE)
        debugs == Take(Get(diff_analysis, "debug_occurrences", <<>>), FeedbackFindingLimit)
        todos == Take(Get(diff_analysis, "todos_added", <<>>), FeedbackFindingLimit)
        total_changes == file_analysis.total_additions + file_analysis.total_deletions
    IN  [i \in 1..Len(failed) |-> FailedItem(failed[i])]
        \o [i \in 1..Len(passed) |-> PassedItem(passed[i])]
        \o [i \in 1..Len(debugs) |-> DebugItem(debugs[i])]
        \o [i \in 1..Len(todos) |-> TodoItem(todos[i])]
        \o (IF IsLargePullRequest(total_changes)
            THEN << SizeItem(total_changes, file_analysis.total_files) >>
            ELSE <<>>)

(***************************************************************************)
(* ReviewEngine.calculate_rating, generate_summary and the stored score.   *)
(***************************************************************************)
\* (score / max_score) * 100 > threshold
PercentageAbove(score, max_score, threshold) ==
    100 * score > threshold * max_score

\* (score / max_score) * 100 >= threshold for max_score > 0: in double
\* arithmetic the quotient of the thresholds' ratios 0.9, 0.7 and 0.5 times
\* 100 is the threshold itself, so the comparison is that of the exact
\* values.
PercentageAtLeast(score, max_score, threshold) ==
    100 * score >= threshold * max_score

\* calculate_rating with the 70 of the second comparison written as 50.
RatingWithLowGoodThreshold(score, max_score) ==
    IF max_score = 0 THEN "good"
    ELSE IF PercentageAtLeast(score, max_score, 90) THEN "excellent"
    ELSE IF PercentageAtLeast(score, max_score, 50) THEN "good"
    ELSE "poor"

calculate_rating(score, max_score) ==
    IF max_score = 0 THEN "good"
    ELSE IF PercentageAtLeast(score, max_score, 90) THEN "excellent"
    ELSE IF PercentageAtLeast(score, max_score, 70) THEN "good"
    ELSE IF PercentageAtLeast(score, max_score, 50) THEN "needs_work"
    ELSE "poor"

\* The ratios score / max_score whose double, multiplied by 100, lies just
\* below the integer 100 * score / max_score: 29/100, 57/100 and 58/100.
RoundsBelow(score, denominator) ==
    \E k \in {29, 57, 58} : 100 * score = k * denominator

\* int((score / max(max_score, 1)) * 100), for 0 <= score <= max_score:
\* truncation of the double product.
StoredScore(score, max_score) ==
    LET denominator == Max(max_score, 1)
    IN  ((100 * score) \div denominator)
            - (IF RoundsBelow(score, denominator) THEN 1 ELSE 0)

\* The summary text is determined by these parts; the f-string renders them.
generate_summary(pr, branch_type, evaluation, file_analysis) ==
    [number |-> pr.number,
     branch_type |-> branch_type,
     score |-> evaluation.score,
     max_score |-> evaluation.max_score,
     checks_passed |-> evaluation.passed,
     checks_total |-> evaluation.passed + evaluation.failed,
     files_changed |-> file_analysis.total_files,
     lines_added |-> file_analysis.total_additions,
     lines_removed |-> file_analysis.total_deletions,
     tests_included |-> file_analysis.has_tests,
     documentation_updated |-> file_analysis.has_documentation,
     areas_for_improvement |->
        [i \in 1..Len(ChecksWith(evaluation.checks, FALSE)) |->
            ChecksWith(evaluation.checks, FALSE)[i].description],
     passed_checks |->
        [i \in 1..Len(ChecksWith(evaluation.checks, TRUE)) |->
            ChecksWith(evaluation.checks, TRUE)[i].description]]

(***************************************************************************)
(* GitHubClient: the three fetches of a review.  A response is [status,    *)
(* body]; status NoResponse stands for requests raising before any         *)
(* response arrives (connection error, timeout).                           *)
(***************************************************************************)
NoResponse == 0
HttpStatuses == {200, 401, 403, 404, 500}

Returned(value) == [raised |-> FALSE, value |-> value]

\* The body GitHub sends with an error status: a JSON message, no diff.
ErrorBody(status) == "{\"message\": \"Request failed\"}"

\* GitHubClient._make_request, given the response requests.request gets.
make_request(endpoint, response) ==
    IF response.status = NoResponse THEN Raised("ConnectionError")
    ELSE IF response.status = 401 THEN Raised("Invalid GitHub token")
    ELSE IF response.status = 404 THEN Raised("Resource not found: " \o endpoint)
    ELSE IF response.status = 403 THEN Raised("Rate limit exceeded or access denied")
    ELSE IF response.status >= 400
    THEN Raised("GitHub API error: " \o ToString(response.status) \o " - "
                    \o ErrorBody(response.status))
    ELSE Returned(response.body)

\* GitHubClient.get_pull_request_files, for a pull request whose files fit
\* one page.
get_pull_request_files(response) == make_request("/pulls/files", response)

\* GitHubClient.get_pull_request_commits
get_pull_request_commits(response) == make_request("/pulls/commits", response)

\* GitHubClient.get_pull_request_diff: response.text, whatever the status.
get_pull_request_diff(response) ==
    IF response.status = NoResponse THEN Raised("ConnectionError")
    ELSE Returned(response.body)

\* What GitHub answers to a request for `payload`: the payload with status
\* 200, an error body with an error status, or nothing at all.
Responses(payload) ==
    { [status |-> st, body |-> IF st = 200 THEN payload ELSE ErrorBody(st)] :
        st \in HttpStatuses \cup {NoResponse} }

(***************************************************************************)
(* State.                                                                  *)
(***************************************************************************)
VARIABLES
    branch_rules,      \* the BranchRule table
    pull_request,      \* the PullRequest row under review
    github,            \* what GitHub holds for it: [files, commits, diff]
    reviews,           \* the Review table, in order of creation
    review_comments,   \* the ReviewComment table, in order of creation
    pc,                \* per caller: where its review_pull_request call is
    frame,             \* per caller: the locals of its call
    unit,              \* a direct call of one engine method: [method, args, result]
    webhook            \* the webhook delivery being handled, and its WebhookLog

vars == << branch_rules, pull_request, github, reviews, review_comments,
           pc, frame, unit, webhook >>

\* The callers of review_pull_request: the review endpoint and the webhook.
Callers == {"manual", "webhook"}

NoReview == 0
NoUser == 0
NoTime == 0
NoComment == 0

NewFrame ==
    [files |-> <<>>, commits |-> <<>>, diff |-> "",
     failed_fetch |-> "", exception |-> "",
     branch_type |-> "", branch_rule |-> NoRule,
     expectations |-> [origin |-> "", matched |-> NoRule, dict |-> EmptyDict],
     file_analysis |-> EmptyDict, diff_analysis |-> EmptyDict,
     commit_analysis |-> EmptyDict, evaluation |-> EmptyDict,
     feedback |-> <<>>, summary |-> EmptyDict, rating |-> "",
     review |-> NoReview]

NoUnit == [method |-> "", args |-> <<>>, result |-> ""]

\* No delivery is being handled.
NoDelivery == [stage |-> "none"]

\* Review.objects.create(**fields): the row, with the model's defaults for
\* the fields the call does not give.
ReviewRow(id, fields) ==
    [id |-> id,
     pull_request |-> fields.pull_request,
     branch_rule |-> Get(fields, "branch_rule", NoRule),
     status |-> Get(fields, "status", "pending"),
     overall_rating |-> Get(fields, "overall_rating", "good"),
     summary |-> fields.summary,
     feedback_items |-> Get(fields, "feedback_items", <<>>),
     expectations_met |-> Get(fields, "expectations_met", EmptyDict),
     score |-> Get(fields, "score", 0),
     reviewed_by |-> NoUser,
     instructor_notes |-> "",
     github_comment_id |-> NoComment,
     approved_at |-> NoTime,
     posted_at |-> NoTime]

\* The fields of the review the except branch of review_pull_request creates.
ErrorReviewFields(pr, exception) ==
    [pull_request |-> pr.number,
     status |-> "pending",
     overall_rating |-> "needs_work",
     summary |-> [error |-> "Error fetching PR data: " \o exception],
     feedback_items |-> <<
        FeedbackItem("error", "error", "Review Error",
                     "Could not fetch PR data from GitHub: " \o exception,
                     "Check GitHub token and repository access") >>,
     score |-> 0]

\* The fields of the review the last part of review_pull_request creates.
ReviewFields(pr, f) ==
    [pull_request |-> pr.number,
     branch_rule |-> f.branch_rule,
     status |-> "pending",
     overall_rating |-> f.rating,
     summary |-> f.summary,
     feedback_items |-> f.feedback,
     expectations_met |-> [checks |-> f.evaluation.checks,
                           passed |-> f.evaluation.passed,
                           failed |-> f.evaluation.failed],
     score |-> StoredScore(f.evaluation.score, f.evaluation.max_score)]

\* The number of findings of one kind that become ReviewComment rows.
CommentLimit == 10

DebugComment(review_id, debug) ==
    [review |-> review_id, file_path |-> debug.file, line_number |-> debug.line,
     content |-> "Debug statement detected: '" \o debug.content \o "'",
     severity |-> "error", category |-> "code_quality"]

TodoComment(review_id, todo) ==
    [review |-> review_id, file_path |-> todo.file, line_number |-> todo.line,
     content |-> "TODO added: " \o todo.content,
     severity |-> "info", category |-> "code_quality"]

\* The ReviewComment rows review_pull_request creates after the review.
CommentsFor(review_id, diff_analysis) ==
    LET debugs == Take(Get(diff_analysis, "debug_occurrences", <<>>), CommentLimit)
        todos == Take(Get(diff_analysis, "todos_added", <<>>), CommentLimit)
    IN  [i \in 1..Len(debugs) |-> DebugComment(review_id, debugs[i])]
        \o [i \in 1..Len(todos) |-> TodoComment(review_id, todos[i])]

(***************************************************************************)
(* ReviewEngine.review_pull_request, one action per step of the call.      *)
(***************************************************************************)
\* A caller enters review_pull_request.
RequestReview(t) ==
    /\ pc[t] = "idle"
    /\ pc' = [pc EXCEPT ![t] = "fetch_files"]
    /\ frame' = [frame EXCEPT ![t] = NewFrame]
    /\ UNCHANGED << branch_rules, pull_request, github, reviews, review_comments, unit, webhook >>

\* The step after a fetch: on to `next`, or into the except branch.
\* failed_fetch notes the fetch GitHub did not answer with status 200.
AfterFetch(t, response, outcome, field, next) ==
    LET failed_fetch == IF response.status = 200 THEN frame[t].failed_fetch ELSE field
    IN  IF outcome.raised
        THEN /\ pc' = [pc EXCEPT ![t] = "fetch_failed"]
             /\ frame' = [frame EXCEPT ![t].exception = outcome.exception,
                                       ![t].failed_fetch = failed_fetch]
        ELSE /\ pc' = [pc EXCEPT ![t] = next]
             /\ frame' = [frame EXCEPT ![t][field] = outcome.value,
                                       ![t].failed_fetch = failed_fetch]

FetchFiles(t) ==
    /\ pc[t] = "fetch_files"
    /\ \E response \in Responses(github.files) :
            AfterFetch(t, response, get_pull_request_files(response), "files", "fetch_commits")
    /\ UNCHANGED << branch_rules, pull_request, github, reviews, review_comments, unit, webhook >>

FetchCommits(t) ==
    /\ pc[t] = "fetch_commits"
    /\ \E response \in Responses(github.commits) :
            AfterFetch(t, response, get_pull_request_commits(response), "commits", "fetch_diff")
    /\ UNCHANGED << branch_rules, pull_request, github, reviews, review_comments, unit, webhook >>

FetchDiff(t) ==
    /\ pc[t] = "fetch_diff"
    /\ \E response \in Responses(github.diff) :
            AfterFetch(t, response, get_pull_request_diff(response), "diff", "match_rule")
    /\ UNCHANGED << branch_rules, pull_request, github, reviews, review_comments, unit, webhook >>

\* except Exception: create the error review and return it.
HandleFetchError(t) ==
    /\ pc[t] = "fetch_failed"
    /\ reviews' = Append(reviews,
                    ReviewRow(Len(reviews) + 1,
                              ErrorReviewFields(pull_request, frame[t].exception)))
    /\ frame' = [frame EXCEPT ![t].review = Len(reviews) + 1]
    /\ pc' = [pc EXCEPT ![t] = "degraded_done"]
    /\ UNCHANGED << branch_rules, pull_request, github, review_comments, unit, webhook >>

\* branch_type = ...; branch_rule = self.get_matching_branch_rule(...)
MatchRule(t) ==
    /\ pc[t] = "match_rule"
    /\ \E rule_id \in get_matching_branch_rule(branch_rules, pull_request) :
            frame' = [frame EXCEPT
                        ![t].branch_type = get_branch_type(pull_request.source_branch),
                        ![t].branch_rule = rule_id]
    /\ pc' = [pc EXCEPT ![t] = "get_expectations"]
    /\ UNCHANGED << branch_rules, pull_request, github, reviews, review_comments, unit, webhook >>

\* expectations = self.get_expectations(pull_request), which queries the
\* rules again.
GetExpectations(t) ==
    /\ pc[t] = "get_expectations"
    /\ \E rule_id \in get_matching_branch_rule(branch_rules, pull_request) :
            frame' = [frame EXCEPT
                        ![t].expectations =
                            get_expectations(branch_rules, pull_request, rule_id)]
    /\ pc' = [pc EXCEPT ![t] = "analyze"]
    /\ UNCHANGED << branch_rules, pull_request, github, reviews, review_comments, unit, webhook >>

Analyze(t) ==
    /\ pc[t] = "analyze"
    /\ frame' = [frame EXCEPT
                    ![t].file_analysis = analyze_files(frame[t].files),
                    ![t].diff_analysis = analyze_diff(frame[t].diff),
                    ![t].commit_analysis = analyze_commits(frame[t].commits)]
    /\ pc' = [pc EXCEPT ![t] = "evaluate"]
    /\ UNCHANGED << branch_rules, pull_request, github, reviews, review_comments, unit, webhook >>

\* evaluate_expectations: its result, or its exception leaving
\* review_pull_request.
Evaluate(t) ==
    /\ pc[t] = "evaluate"
    /\ LET evaluation == evaluate_expectations(frame[t].expectations.dict,
                            frame[t].file_analysis, frame[t].diff_analysis,
                            frame[t].commit_analysis, pull_request)
       IN  IF evaluation.raised
           THEN /\ pc' = [pc EXCEPT ![t] = "raised"]
                /\ frame' = [frame EXCEPT ![t].exception = evaluation.exception]
           ELSE /\ pc' = [pc EXCEPT ![t] = "synthesize"]
                /\ frame' = [frame EXCEPT ![t].evaluation = evaluation]
    /\ UNCHANGED << branch_rules, pull_request, github, reviews, review_comments, unit, webhook >>

Synthesize(t) ==
    /\ pc[t] = "synthesize"
    /\ frame' = [frame EXCEPT
                    ![t].feedback = generate_feedback(frame[t].evaluation,
                                        frame[t].file_analysis, frame[t].diff_analysis),
                    ![t].summary = generate_summary(pull_request, frame[t].branch_type,
                                        frame[t].evaluation, frame[t].file_analysis),
                    ![t].rating = calculate_rating(frame[t].evaluation.score,
                                        frame[t].evaluation.max_score)]
    /\ pc' = [pc EXCEPT ![t] = "create_review"]
    /\ UNCHANGED << branch_rules, pull_request, github, reviews, review_comments, unit, webhook >>

\* Review.objects.create(...), the ReviewComment rows, return review.  The
\* insert of a review whose branch_rule row was deleted meanwhile breaks
\* the foreign key, and the IntegrityError leaves review_pull_request.
CreateReview(t) ==
    /\ pc[t] = "create_review"
    /\ IF frame[t].branch_rule = NoRule
            \/ \E r \in branch_rules : r.id = frame[t].branch_rule
       THEN /\ reviews' = Append(reviews,
                    ReviewRow(Len(reviews) + 1, ReviewFields(pull_request, frame[t])))
            /\ review_comments' = review_comments
                            \o CommentsFor(Len(reviews) + 1, frame[t].diff_analysis)
            /\ frame' = [frame EXCEPT ![t].review = Len(reviews) + 1]
            /\ pc' = [pc EXCEPT ![t] = "done"]
       ELSE /\ frame' = [frame EXCEPT ![t].exception = "IntegrityError"]
            /\ pc' = [pc EXCEPT ![t] = "raised"]
            /\ UNCHANGED << reviews, review_comments >>
    /\ UNCHANGED << branch_rules, pull_request, github, unit,
                    webhook >>

Next ==
    \E t \in Callers :
        \/ RequestReview(t)
        \/ FetchFiles(t)
        \/ FetchCommits(t)
        \/ FetchDiff(t)
        \/ HandleFetchError(t)
        \/ MatchRule(t)
        \/ GetExpectations(t)
        \/ Analyze(t)
        \/ Evaluate(t)
        \/ Synthesize(t)
        \/ CreateReview(t)

(***************************************************************************)
(* The data the runs draw from.                                            *)
(***************************************************************************)
RECURSIVE Repeat(_, _)
\* s * n
Repeat(s, n) == IF n = 0 THEN "" ELSE s \o Repeat(s, n - 1)

\* The sequences of at most n distinct members of pool, in any order.
ListsOf(pool, n) ==
    UNION { { xs \in [1..k -> pool] : \A i, j \in 1..k : i # j => xs[i] # xs[j] } :
            k \in 0..n }

\* The sequences of at most n members of pool (a sequence), in pool order.
RECURSIVE SubListsOf(_, _)
SubListsOf(pool, n) ==
    IF pool = <<>> \/ n = 0 THEN { <<>> }
    ELSE SubListsOf(Tail(pool), n)
            \cup { << Head(pool) >> \o xs : xs \in SubListsOf(Tail(pool), n - 1) }

File(filename, additions, deletions) ==
    [filename |-> filename, additions |-> additions, deletions |-> deletions]

FilePool ==
    << File("src/main.py", 100, 20),
       File("tests/test_main.py", 50, 10),
       File("README.md", 20, 5),
       File("docs/test_api.py", 440, 0),
       File("setup.py", 2, 1) >>

Commit(sha, message) == [sha |-> sha, message |-> message]

CommitPool ==
    << Commit("abc123abc123", "wip"),
       Commit("def456def456", "Add new feature with tests"),
       Commit("0123456789ab", "Fixes #123: Login bug"),
       Commit("fedcba987654", "fix\n\ncloses 45") >>

\* A diff of one file with n_debug added debug lines and n_todo added
\* marker comments.
DiffOf(n_debug, n_todo) ==
    "+++ b/src/main.py\n@@ -1,5 +1,6 @@\n"
        \o Repeat("+print('x')\n", n_debug) \o Repeat("+# TODO: later\n", n_todo)

SampleDiffs ==
    { "",
      "\n+++ b/src/main.py\n@@ -1,5 +1,6 @@\n+console.log('debug');\n+print('test')\n",
      "--- a/app.py\n+++ b/app.py\n@@ -0,0 +3,2 @@\n+import pdb; pdb.set_trace()\n-print('old')\n context\n+x = 1  # fixme\n" }

CountedDiffs == { DiffOf(d, t) : d, t \in 0..MaxFindings }

PullRequestRow(source_branch, description_length) ==
    [repository |-> 1, number |-> 7, source_branch |-> source_branch,
     description |-> Repeat("x", description_length)]

Rule(id, branch_pattern, repository, is_active, expectations) ==
    [id |-> id, branch_pattern |-> branch_pattern, repository |-> repository,
     is_active |-> is_active, expectations |-> expectations]

\* Expectation sets a rule can carry beside copies of the defaults.
CustomExpectations ==
    { [checks |-> << Check("has_tests", "Has tests", 20),
                     Check("license_header", "Files carry the license header", 30) >>,
       max_files |-> 1, max_lines |-> 100],
      [checks |-> << [name |-> "no_debug_code", description |-> "No debug code"],
                     Check("references_issue", "References an issue", 5) >>],
      [checks |-> <<>>],
      [checks |-> << Check("has_description", "Has a description", -5) >>],
      [checks |-> << [name |-> "signed_commits", description |-> "Commits are signed"],
                     Check("has_tests", "Has tests", 20),
                     Check("", "Unnamed", 7) >>],
      [checks |-> << Check("has_tests", "Has tests", 29),
                     Check("has_description", "Has a description", 71) >>] }

\* Expectation sets with a check that lacks a key.
MalformedExpectations ==
    { [checks |-> << [name |-> "has_tests", weight |-> 20] >>],
      [checks |-> << Check("has_tests", "Has tests", 20),
                     [description |-> "Unnamed", weight |-> 5] >>] }

RulePool ==
    { Rule(1, "feature/*", 1, TRUE,
           [checks |-> << Check("has_tests", "Has tests", 20),
                          Check("license_header", "Files carry the license header", 30) >>,
            max_files |-> 1, max_lines |-> 100]),
      Rule(2, "*", NoRepository, TRUE, [checks |-> <<>>]),
      Rule(3, "feature/*", 1, TRUE, EmptyDict),
      Rule(4, "feature/*", 2, TRUE,
           [checks |-> << Check("has_description", "Has a description", 100) >>]),
      Rule(5, "feat*", 1, FALSE,
           [checks |-> << Check("has_description", "Has a description", 100) >>]),
      Rule(6, "feature/*", NoRepository, TRUE,
           [checks |-> << [name |-> "has_tests", weight |-> 20] >>]) }

GitHubData(files, commits, diff) == [files |-> files, commits |-> commits, diff |-> diff]

InitCalls ==
    /\ reviews = <<>>
    /\ review_comments = <<>>
    /\ pc = [t \in Callers |-> IF t = "manual" THEN "idle" ELSE "absent"]
    /\ frame = [t \in Callers |-> NewFrame]
    /\ webhook = NoDelivery
    /\ unit = NoUnit

\* Any stored rules, a feature or an unprefixed branch, three pull requests.
Init ==
    /\ branch_rules \in SUBSET RulePool
    /\ pull_request \in { PullRequestRow(b, 40) : b \in {"feature/login", "main"} }
    /\ github \in
        { GitHubData(<<>>, <<>>, ""),
          GitHubData(<< FilePool[1], FilePool[2] >>, << CommitPool[1] >>,
                     "\n+++ b/src/main.py\n@@ -1,5 +1,6 @@\n+console.log('debug');\n+print('test')\n"),
          GitHubData(<< FilePool[4], FilePool[1] >>, << CommitPool[2], CommitPool[3] >>,
                     DiffOf(MaxFindings, MaxFindings)) }
    /\ InitCalls

Spec == Init /\ [][Next]_vars

\* The pull request of the end-to-end property: branch feature/login, a
\* description of 40 characters, the one commit "wip", no rule that matches;
\* any changed files and any diff.
InitEndToEnd ==
    /\ branch_rules = { r \in RulePool : r.id \in {4, 5} }
    /\ pull_request = PullRequestRow("feature/login", 40)
    /\ github \in { GitHubData(files, << CommitPool[1] >>, diff) :
                        files \in SubListsOf(FilePool, MaxFiles),
                        diff \in SampleDiffs \cup CountedDiffs }
    /\ InitCalls

SpecEndToEnd == InitEndToEnd /\ [][Next]_vars

\* What the evaluator is run on: changed files, diff and description length.
Scenarios ==
    { [files |-> <<>>, diff |-> "", description_length |-> 40],
      [files |-> << FilePool[2], FilePool[3] >>, description_length |-> 50,
       diff |-> "\n+++ b/src/main.py\n@@ -1,5 +1,6 @@\n+console.log('debug');\n+print('test')\n"],
      [files |-> << FilePool[4], FilePool[1] >>, description_length |-> 50,
       diff |-> "--- a/app.py\n+++ b/app.py\n@@ -0,0 +3,2 @@\n+import pdb; pdb.set_trace()\n-print('old')\n context\n+x = 1  # fixme\n"],
      [files |-> << FilePool[5], File("CHANGELOG.md", 3, 60) >>, diff |-> "",
       description_length |-> 40],
      [files |-> FilePool \o << File("CHANGELOG.md", 3, 0) >>, diff |-> "",
       description_length |-> 49] }

BranchTypes == {"feature", "bugfix", "hotfix", "release", "refactor", "other"}

ExpectationPool ==
    { DEFAULT_EXPECTATIONS[b] : b \in BranchTypes }
        \cup CustomExpectations \cup MalformedExpectations

\* One global rule that matches every branch and carries any of the
\* expectation sets; any commits.
InitEval ==
    /\ branch_rules \in { { Rule(1, "*", NoRepository, TRUE, e) } : e \in ExpectationPool }
    /\ \E sc \in Scenarios :
        /\ pull_request = PullRequestRow("main", sc.description_length)
        /\ github \in { GitHubData(sc.files, commits, sc.diff) :
                            commits \in SubListsOf(CommitPool, MaxCommits) }
    /\ InitCalls

SpecEval == InitEval /\ [][Next]_vars

(***************************************************************************)
(* A direct call of calculate_rating, as the unit tests make it.           *)
(***************************************************************************)
Pending == "<pending>"

RatingArguments ==
    ((0..MaxScore) \X (0..MaxScore))
        \cup { <<90, 100>>, <<89, 100>>, <<49, 100>>, <<95, 100>>, <<75, 100>>,
               <<55, 100>>, <<30, 100>>, <<70, 100>>, <<69, 100>>, <<50, 100>> }

InitRating ==
    /\ branch_rules = {}
    /\ pull_request = PullRequestRow("main", 0)
    /\ github = GitHubData(<<>>, <<>>, "")
    /\ reviews = <<>>
    /\ review_comments = <<>>
    /\ pc = [t \in Callers |-> "absent"]
    /\ frame = [t \in Callers |-> NewFrame]
    /\ webhook = NoDelivery
    /\ unit \in { [method |-> "calculate_rating", args |-> a, result |-> Pending] :
                    a \in RatingArguments }

CallCalculateRating ==
    /\ unit.method = "calculate_rating"
    /\ unit.result = Pending
    /\ unit' = [unit EXCEPT !.result = calculate_rating(unit.args[1], unit.args[2])]
    /\ UNCHANGED << branch_rules, pull_request, github, reviews, review_comments,
                    pc, frame, webhook >>

NextRating == CallCalculateRating

SpecRating == InitRating /\ [][NextRating]_vars

(***************************************************************************)
(* A direct call of analyze_diff, as the unit tests make it.               *)
(***************************************************************************)
\* The calls of one method a run chooses from; the review tables are empty.
InitUnit(calls) ==
    /\ branch_rules = {}
    /\ pull_request = PullRequestRow("main", 0)
    /\ github = GitHubData(<<>>, <<>>, "")
    /\ reviews = <<>>
    /\ review_comments = <<>>
    /\ pc = [t \in Callers |-> "absent"]
    /\ frame = [t \in Callers |-> NewFrame]
    /\ webhook = NoDelivery
    /\ unit \in calls

\* A call not yet made; `returned` tells a result from Pending.
UnitCall(method, args) ==
    [method |-> method, args |-> args, result |-> Pending, returned |-> FALSE]

\* The call, made.
Return(call, value) == [call EXCEPT !.result = value, !.returned = TRUE]

\* The lines diffs are made of: file headers, a hunk header, added lines
\* with one debug statement, with two, with a marker comment and with
\* neither, a removed line, a context line and the old-file header.
DiffLinePool ==
    { "+++ b/src/a.py", "+++ b/web/b.js", "@@ -1,2 +10,3 @@",
      "+print('x')", "+import pdb; pdb.set_trace()", "+# TODO: later", "+x = 1",
      "-print('old')", " console.log(ctx)", "--- a/src/a.py" }

DiffTexts ==
    { Join("\n", lines) :
        lines \in UNION { [1..k -> DiffLinePool] : k \in 0..MaxDiffLines } }

InitDiff == InitUnit({ UnitCall("analyze_diff", << diff >>) : diff \in DiffTexts })

CallAnalyzeDiff ==
    /\ unit.method = "analyze_diff"
    /\ ~unit.returned
    /\ unit' = Return(unit, analyze_diff(unit.args[1]))
    /\ UNCHANGED << branch_rules, pull_request, github, reviews, review_comments,
                    pc, frame, webhook >>

NextDiff == CallAnalyzeDiff

SpecDiff == InitDiff /\ [][NextDiff]_vars

(***************************************************************************)
(* A direct call of analyze_commits.                                       *)
(***************************************************************************)
\* Commit messages: first lines of 3, 9, 10 and more characters, issue
\* references in the first line, in the body only, and near misses.
CommitMessages ==
    { "", "wip", "nine char", "exactly 10", "Add new feature with tests",
      "Fixes #123: Login bug", "fix\n\ncloses 45", "tiny\nwith a long body line",
      "Resolve\n7 things", "fixes45 and fix 12" }

CommitLists ==
    UNION { [1..k -> { Commit("abc123abc123", text) : text \in CommitMessages }] :
            k \in 0..MaxCommits }

InitCommits == InitUnit({ UnitCall("analyze_commits", << commits >>) : commits \in CommitLists })

CallAnalyzeCommits ==
    /\ unit.method = "analyze_commits"
    /\ ~unit.returned
    /\ unit' = Return(unit, analyze_commits(unit.args[1]))
    /\ UNCHANGED << branch_rules, pull_request, github, reviews, review_comments,
                    pc, frame, webhook >>

NextCommits == CallAnalyzeCommits

SpecCommits == InitCommits /\ [][NextCommits]_vars

(***************************************************************************)
(* PullRequest.branch_type, the property the templates and the API show,   *)
(* and direct calls of it and of get_branch_type.                          *)
(***************************************************************************)
\* self.source_branch.split('/')[0] if '/' in self.source_branch else 'other'
branch_type(source_branch) ==
    IF Contains(source_branch, "/") THEN Head(Split(source_branch, "/")) ELSE "other"

\* First parts of branch names: the synonyms of the five tags and others.
BranchWords ==
    { "feature", "feat", "features", "bugfix", "bug", "fix", "hotfix", "hot",
      "emergency", "release", "releases", "rel", "refactor", "refactoring",
      "cleanup", "main", "my-branch", "docs", "user", "featured" }

BranchTails == { "", "/", "/login", "-login", "/v1.0.0/rc" }

BranchNames ==
    { word \o tail : word \in BranchWords \cup { Upper(w) : w \in BranchWords },
                     tail \in BranchTails }

InitBranch ==
    InitUnit({ UnitCall(method, << name >>) :
                method \in {"get_branch_type", "branch_type"}, name \in BranchNames })

CallGetBranchType ==
    /\ unit.method = "get_branch_type"
    /\ ~unit.returned
    /\ unit' = Return(unit, get_branch_type(unit.args[1]))
    /\ UNCHANGED << branch_rules, pull_request, github, reviews, review_comments,
                    pc, frame, webhook >>

CallBranchType ==
    /\ unit.method = "branch_type"
    /\ ~unit.returned
    /\ unit' = Return(unit, branch_type(unit.args[1]))
    /\ UNCHANGED << branch_rules, pull_request, github, reviews, review_comments,
                    pc, frame, webhook >>

NextBranch == CallGetBranchType \/ CallBranchType

SpecBranch == InitBranch /\ [][NextBranch]_vars

(***************************************************************************)
(* Review.approve, Review.reject and Review.mark_posted, called directly   *)
(* on a stored review, as the model tests call them.                       *)
(***************************************************************************)
\* The last reading of timezone.now() a run takes.
MaxTime == 2

Users == {1, 2}
Notes == {"", "Looks good!", "Needs more work"}
CommentIds == {NoComment, 12345, 777}
Times == 1..MaxTime

ApproveWithoutTimestamp(self, user, notes, now) ==
    [self EXCEPT !.status = "approved", !.reviewed_by = user,
                 !.instructor_notes = notes]

approve(self, user, notes, now) ==
    [self EXCEPT !.status = "approved", !.reviewed_by = user,
                 !.instructor_notes = notes, !.approved_at = now]

reject(self, user, notes) ==
    [self EXCEPT !.status = "rejected", !.reviewed_by = user,
                 !.instructor_notes = notes]

mark_posted(self, comment_id, now) ==
    [self EXCEPT !.status = "posted", !.github_comment_id = comment_id,
                 !.posted_at = now]

\* The reviews the methods are called on: one the engine stored for a
\* failed fetch, and the one the model tests create.
StoredReviews ==
    { << ReviewRow(1, ErrorReviewFields(PullRequestRow("main", 0), "timeout")) >>,
      << ReviewRow(1, [pull_request |-> 1, summary |-> [text |-> "Test summary"],
                       score |-> 75]) >> }

InitModeration ==
    /\ branch_rules = {}
    /\ pull_request = PullRequestRow("main", 0)
    /\ github = GitHubData(<<>>, <<>>, "")
    /\ reviews \in StoredReviews
    /\ review_comments = <<>>
    /\ pc = [t \in Callers |-> "absent"]
    /\ frame = [t \in Callers |-> NewFrame]
    /\ webhook = NoDelivery
    /\ unit = UnitCall("", <<>>)

\* self.save() writes the row back; `unit` keeps the call that was made.
SaveReview(method, args, row) ==
    /\ reviews' = [reviews EXCEPT ![row.id] = row]
    /\ unit' = Return(UnitCall(method, args), row.id)
    /\ UNCHANGED << branch_rules, pull_request, github, review_comments, pc, frame, webhook >>

CallApprove ==
    \E id \in DOMAIN reviews, user \in Users, notes \in Notes, now \in Times :
        SaveReview("approve", << id, user, notes >>,
                   approve(reviews[id], user, notes, now))

CallReject ==
    \E id \in DOMAIN reviews, user \in Users, notes \in Notes :
        SaveReview("reject", << id, user, notes >>,
                   reject(reviews[id], user, notes))

CallMarkPosted ==
    \E id \in DOMAIN reviews, comment_id \in CommentIds, now \in Times :
        SaveReview("mark_posted", << id, comment_id >>,
                   mark_posted(reviews[id], comment_id, now))

NextModeration == CallApprove \/ CallReject \/ CallMarkPosted

SpecModeration == InitModeration /\ [][NextModeration]_vars

(***************************************************************************)
(* GitHubWebhookView: one delivery, from the test of its signature and the *)
(* WebhookLog row post creates to the response, with the log marked        *)
(* processed or carrying the error.  The                                   *)
(* reviews the delivery starts are calls of review_pull_request by the     *)
(* caller "webhook"; the detail GitHub returns carries the attributes      *)
(* `pull_request` holds, so sync_pull_request changes the row's status     *)
(* only.                                                                   *)
(***************************************************************************)
\* action in ['opened', 'synchronize', 'reopened']
ReviewedActions == {"opened", "synchronize", "reopened"}

WebhookActions == ReviewedActions \cup {"closed", "edited"}

\* What GitHub holds of the pull request's state.
PullRequestDetails ==
    { [state |-> "open", merged |-> FALSE],
      [state |-> "closed", merged |-> FALSE],
      [state |-> "closed", merged |-> TRUE] }

\* GitHubClient.get_pull_request
get_pull_request(response) == make_request("/pulls/7", response)

\* 'status': 'merged' if pr_data.get('merged') else pr_data['state']
StatusOf(pr_data) == IF pr_data.merged THEN "merged" ELSE pr_data.state

\* if created and instance.status == 'open'
auto_review_new_pr(created, status) == created /\ status = "open"

NoLog == [event_type |-> ""]

\* WebhookLog.objects.create(event_type=event_type, payload=payload)
NewLog(event_type) ==
    [event_type |-> event_type, repository |-> NoRepository, processed |-> FALSE,
     processed_at |-> NoTime, error_message |-> ""]

\* hmac.new(secret, payload, hashlib.sha256).hexdigest(): a text that tells
\* apart the secrets and payloads it is made from.
Hmac(secret, payload) == "hmac(" \o secret \o "," \o payload \o ")"

\* Stands for a character above U+007F in a header value.
NonAsciiChar == "?"

IsAscii(text) == ~Contains(text, NonAsciiChar)

\* hmac.compare_digest(a, b) for two str: a TypeError when either holds a
\* character that is not ASCII.
compare_digest(a, b) ==
    IF IsAscii(a) /\ IsAscii(b) THEN Returned(a = b)
    ELSE Raised("TypeError: comparing strings with non-ASCII characters is not supported")

\* GitHubWebhookView._verify_signature; signature "" is a header that is
\* absent or empty.
verify_signature(secret, payload, signature) ==
    IF signature = "" THEN Returned(FALSE)
    ELSE compare_digest("sha256=" \o Hmac(secret, payload), signature)

\* A pull_request delivery as post receives it, sent without a signature
\* to a server without a webhook secret.  `stored` tells
\* whether the PullRequest row exists, `repository_known` whether the
\* Repository row does, `receiver_connected` whether signals.py was
\* imported, so that its receiver is connected to post_save.  `calls`
\* counts the calls of review_pull_request made for this delivery and
\* `reviews` collects the reviews they returned.
Delivery(action, pr_data, stored, repository_known, receiver_connected) ==
    [stage |-> "posted", event_type |-> "pull_request",
     secret |-> "", body |-> "payload", signature |-> "", response |-> NoResponse,
     action |-> action, pr_data |-> pr_data,
     stored |-> stored, repository_known |-> repository_known,
     receiver_connected |-> receiver_connected,
     created |-> FALSE, status |-> "", calls |-> 0, reviews |-> <<>>,
     log |-> NoLog]

\* The delivery, sent with this X-GitHub-Event header.
OfEvent(delivery, event_type) == [delivery EXCEPT !.event_type = event_type]

\* The delivery, sent with this X-Hub-Signature-256 header to a server with
\* this GITHUB_WEBHOOK_SECRET.
Signed(delivery, secret, signature) ==
    [delivery EXCEPT !.secret = secret, !.signature = signature]

\* The start of post: the signature is tested when a secret is configured,
\* then the WebhookLog row is created.  An exception of the test is raised
\* outside the try block and leaves the view.
Post ==
    /\ webhook.stage = "posted"
    /\ LET verdict == IF webhook.secret = "" THEN Returned(TRUE)
                      ELSE verify_signature(webhook.secret, webhook.body,
                                            webhook.signature)
       IN  webhook' =
                IF verdict.raised
                THEN [webhook EXCEPT !.stage = "crashed", !.response = 500]
                ELSE IF ~verdict.value
                THEN [webhook EXCEPT !.stage = "forbidden", !.response = 403]
                ELSE [webhook EXCEPT !.stage = "logged",
                                     !.log = NewLog(webhook.event_type)]
    /\ UNCHANGED << branch_rules, pull_request, github, reviews, review_comments,
                    pc, frame, unit >>

\* webhook_log.processed = True; processed_at = timezone.now();
\* return Response({'status': 'ok'})
Processed(delivery, stage, now) ==
    [delivery EXCEPT !.stage = stage, !.response = 200,
                     !.log.processed = TRUE, !.log.processed_at = now]

\* if event_type == 'pull_request': ... elif event_type == 'ping': ...;
\* return Response({'status': 'ok'})
Dispatch ==
    /\ webhook.stage = "logged"
    /\ IF webhook.event_type = "pull_request"
       THEN webhook' = [webhook EXCEPT !.stage = "received"]
       ELSE IF webhook.event_type = "ping"
       THEN \E now \in Times : webhook' = Processed(webhook, "answered", now)
       ELSE webhook' = [webhook EXCEPT !.stage = "answered", !.response = 200]
    /\ UNCHANGED << branch_rules, pull_request, github, reviews, review_comments,
                    pc, frame, unit >>

\* except Exception as e: webhook_log.error_message = str(e); status 500
FailDelivery(message) ==
    webhook' = [webhook EXCEPT !.stage = "failed", !.response = 500,
                               !.log.error_message = message]

\* Repository.objects.get(...); webhook_log.repository = repository
FindRepository ==
    /\ webhook.stage = "received"
    /\ IF webhook.repository_known
       THEN webhook' = [webhook EXCEPT !.stage = "get_pull_request",
                                       !.log.repository = pull_request.repository]
       ELSE FailDelivery("Repository not found: owner/repo")
    /\ UNCHANGED << branch_rules, pull_request, github, reviews, review_comments,
                    pc, frame, unit >>

\* pr_detail = client.get_pull_request(...)
GetPullRequest ==
    /\ webhook.stage = "get_pull_request"
    /\ \E response \in Responses(webhook.pr_data) :
            LET outcome == get_pull_request(response)
            IN  IF outcome.raised
                THEN FailDelivery(outcome.exception)
                ELSE webhook' = [webhook EXCEPT !.stage = "sync"]
    /\ UNCHANGED << branch_rules, pull_request, github, reviews, review_comments,
                    pc, frame, unit >>

\* pr, created = sync_pull_request(repository, pr_detail): update_or_create
\* saves the row, and post_save calls the receiver before save returns.
SyncPullRequest ==
    /\ webhook.stage = "sync"
    /\ LET created == ~webhook.stored
           status == StatusOf(webhook.pr_data)
           reviewing == webhook.receiver_connected /\ auto_review_new_pr(created, status)
       IN  /\ webhook' = [webhook EXCEPT
                            !.stored = TRUE, !.created = created, !.status = status,
                            !.calls = IF reviewing THEN @ + 1 ELSE @,
                            !.stage = IF reviewing THEN "signal" ELSE "synced"]
           /\ pc' = [pc EXCEPT !["webhook"] = IF reviewing THEN "idle" ELSE @]
    /\ UNCHANGED << branch_rules, pull_request, github, reviews, review_comments,
                    frame, unit >>

ReturnedStates == {"done", "degraded_done"}

\* The call of review_pull_request the delivery waits for has ended: with
\* the review it returned, or with an exception that reaches post.
AfterReview(next) ==
    /\ IF pc["webhook"] = "raised"
       THEN FailDelivery(frame["webhook"].exception)
       ELSE LET returned == [webhook EXCEPT
                                !.reviews = Append(@, frame["webhook"].review)]
            IN  IF next = "processed"
                THEN \E now \in Times : webhook' = Processed(returned, next, now)
                ELSE webhook' = [returned EXCEPT !.stage = next]
    /\ pc' = [pc EXCEPT !["webhook"] = "absent"]
    /\ UNCHANGED << branch_rules, pull_request, github, reviews, review_comments,
                    frame, unit >>

\* auto_review_new_pr returns, and with it save and sync_pull_request.
ReceiverReturns ==
    /\ webhook.stage = "signal"
    /\ pc["webhook"] \in ReturnedStates \cup {"raised"}
    /\ AfterReview("synced")

\* if action in [...]: engine.review_pull_request(pr); else the log is
\* marked processed at once.
ReviewIfAsked ==
    /\ webhook.stage = "synced"
    /\ IF webhook.action \in ReviewedActions
       THEN /\ webhook' = [webhook EXCEPT !.stage = "review", !.calls = @ + 1]
            /\ pc' = [pc EXCEPT !["webhook"] = "idle"]
       ELSE /\ \E now \in Times : webhook' = Processed(webhook, "processed", now)
            /\ pc' = pc
    /\ UNCHANGED << branch_rules, pull_request, github, reviews, review_comments,
                    frame, unit >>

\* The handler's own review returns; webhook_log.processed = True.
HandlerReviewReturns ==
    /\ webhook.stage = "review"
    /\ pc["webhook"] \in ReturnedStates \cup {"raised"}
    /\ AfterReview("processed")

NextWebhook ==
    \/ Next
    \/ Post
    \/ Dispatch
    \/ FindRepository
    \/ GetPullRequest
    \/ SyncPullRequest
    \/ ReceiverReturns
    \/ ReviewIfAsked
    \/ HandlerReviewReturns

\* The X-Hub-Signature-256 headers sent to a server whose secret is
\* "s3cret": none, the digest of the body, digests with another secret and
\* of another body, the digest without its prefix, a header with a
\* character that is not ASCII.
Signatures ==
    { "", "sha256=" \o Hmac("s3cret", "payload"), "sha256=" \o Hmac("guess", "payload"),
      "sha256=" \o Hmac("s3cret", "other payload"), Hmac("s3cret", "payload"),
      "sha256=" \o NonAsciiChar }

\* The deliveries: any action for a pull request in any state (closed,
\* when the action is closed), stored or not, with the receiver connected
\* or not; one for a repository that is not stored; one with each
\* signature to a server with a secret; a ping and a push.
Deliveries ==
    LET opened == Delivery("opened", [state |-> "open", merged |-> FALSE],
                           FALSE, TRUE, TRUE)
    IN  { d \in { Delivery(action, pr_data, stored, TRUE, connected) :
                    action \in WebhookActions, pr_data \in PullRequestDetails,
                    stored \in BOOLEAN, connected \in BOOLEAN } :
            d.action = "closed" => d.pr_data.state = "closed" }
          \cup { Delivery("opened", [state |-> "open", merged |-> FALSE],
                          FALSE, FALSE, TRUE) }
          \cup { Signed(opened, "s3cret", signature) : signature \in Signatures }
          \cup { OfEvent(Signed(opened, secret, ""), event_type) :
                    secret \in {"", "s3cret"}, event_type \in {"ping", "push"} }

\* Rules stored while a delivery is handled: none, two of one scope and
\* one pattern, a global one whose check lacks its description.
WebhookRules ==
    { {}, { r \in RulePool : r.id \in {1, 3} }, { r \in RulePool : r.id = 6 } }

\* A delivery arrives; for a stored open pull request a review may have
\* been requested at the review endpoint at the same time.
InitWebhook ==
    /\ branch_rules \in WebhookRules
    /\ pull_request = PullRequestRow("feature/login", 40)
    /\ github = GitHubData(<< FilePool[1], FilePool[2] >>, << CommitPool[1] >>,
                           "\n+++ b/src/main.py\n@@ -1,5 +1,6 @@\n+print('test')\n")
    /\ reviews = <<>>
    /\ review_comments = <<>>
    /\ webhook \in Deliveries
    /\ pc \in { [t \in Callers |-> IF t = "manual" THEN p ELSE "absent"] :
                    p \in IF /\ webhook.stored
                             /\ webhook.receiver_connected
                             /\ webhook.pr_data.state = "open"
                             /\ webhook.action \in {"synchronize", "edited"}
                          THEN {"absent", "idle"} ELSE {"absent"} }
    /\ frame = [t \in Callers |-> NewFrame]
    /\ unit = NoUnit

SpecWebhook == InitWebhook /\ [][NextWebhook]_vars

(***************************************************************************)
(* A direct call of analyze_diff on diffs with several hunks.              *)
(***************************************************************************)
\* The most lines such a diff has.
MaxHunkLines == 4

\* A file header, two hunk headers, an added line with a debug statement,
\* one with a marker comment, a removed line and a context line that would
\* match if they were scanned.
HunkLinePool ==
    { "+++ b/src/a.py", "@@ -1,2 +10,3 @@", "@@ -40,6 +7 @@ def f(x):",
      "+print('x')", "+# TODO: later", "-print('old') # TODO", " console.log(ctx)" }

HunkDiffs ==
    { Join("\n", lines) :
        lines \in UNION { [1..k -> HunkLinePool] : k \in 0..MaxHunkLines } }

InitHunks == InitUnit({ UnitCall("analyze_diff", << diff >>) : diff \in HunkDiffs })

SpecHunks == InitHunks /\ [][NextDiff]_vars

(***************************************************************************)
(* The no_new_features check: analyze_commits on a list of commits, then   *)
(* evaluate_expectations on its result, as review_pull_request chains      *)
(* them.                                                                   *)
(***************************************************************************)
FeatureExpectations ==
    [checks |-> << Check("no_new_features", "No new features in hotfixes", 20) >>]

\* First lines with a keyword at the start, inside a word, in upper case
\* and in the body only; first lines of more than 100 characters with the
\* keyword ending at character 100, lying across it and after it.
FeatureMessages ==
    { "fix typo", "Add login", "renewal of the certificate", "IMPLEMENT retries",
      "Fix crash\n\nadd a test for it",
      Repeat("x", 97) \o "add", Repeat("x", 98) \o "add",
      Repeat("x", 100) \o " create report" }

FeatureCommitLists ==
    UNION { [1..k -> { Commit("abc123abc123", text) : text \in FeatureMessages }] :
            k \in 0..MaxCommits }

InitFeatures ==
    InitUnit({ UnitCall("no_new_features", << commits >>) : commits \in FeatureCommitLists })

CallNoNewFeatures ==
    /\ unit.method = "no_new_features"
    /\ ~unit.returned
    /\ unit' = Return(unit,
                  evaluate_expectations(FeatureExpectations, analyze_files(<<>>),
                                        analyze_diff(""), analyze_commits(unit.args[1]),
                                        PullRequestRow("hotfix/login", 40)))
    /\ UNCHANGED << branch_rules, pull_request, github, reviews, review_comments,
                    pc, frame, webhook >>

NextFeatures == CallNoNewFeatures

SpecFeatures == InitFeatures /\ [][NextFeatures]_vars

(***************************************************************************)
(* BranchRuleViewSet and the rule views: rules are created, edited,        *)
(* deactivated and deleted while a review runs.                            *)
(***************************************************************************)
\* The rules the requests write: one of the pull request's repository with
\* checks of its own and a global one with an empty list of checks.
EditableRules == { r \in RulePool : r.id \in {1, 2} }

\* The expectations an edit stores: the rule's first ones or an empty
\* object.
EditedExpectations(id) ==
    { (CHOOSE r \in EditableRules : r.id = id).expectations, EmptyDict }

\* No running call holds the rule and no review refers to it.
Unreferenced(id) ==
    /\ \A t \in Callers :
          frame[t].branch_rule # id /\ frame[t].expectations.matched # id
    /\ \A i \in DOMAIN reviews : reviews[i].branch_rule # id

\* POST: BranchRule.objects.create(...)
CreateRule ==
    /\ \E r \in EditableRules :
          /\ \A q \in branch_rules : q.id # r.id
          /\ Unreferenced(r.id)
          /\ branch_rules' = branch_rules \cup {r}
    /\ UNCHANGED << pull_request, github, reviews, review_comments, pc, frame,
                    unit, webhook >>

\* PUT or PATCH: is_active and expectations of a stored rule.
UpdateRule ==
    /\ \E r \in branch_rules, is_active \in BOOLEAN :
          \E expectations \in EditedExpectations(r.id) :
              /\ << is_active, expectations >> # << r.is_active, r.expectations >>
              /\ branch_rules' = (branch_rules \ {r})
                    \cup { [r EXCEPT !.is_active = is_active,
                                     !.expectations = expectations] }
    /\ UNCHANGED << pull_request, github, reviews, review_comments, pc, frame,
                    unit, webhook >>

\* on_delete=models.SET_NULL of Review.branch_rule
SetNull(review_rows, id) ==
    [i \in DOMAIN review_rows |->
        IF review_rows[i].branch_rule = id
        THEN [review_rows[i] EXCEPT !.branch_rule = NoRule]
        ELSE review_rows[i]]

\* DELETE: rule.delete()
DestroyRule ==
    /\ \E r \in branch_rules :
          /\ branch_rules' = branch_rules \ {r}
          /\ reviews' = SetNull(reviews, r.id)
    /\ UNCHANGED << pull_request, github, review_comments, pc, frame, unit, webhook >>

NextRules == Next \/ CreateRule \/ UpdateRule \/ DestroyRule

\* One review of a pull request on feature/login, under any of the rules.
InitRules ==
    /\ branch_rules \in SUBSET EditableRules
    /\ pull_request = PullRequestRow("feature/login", 40)
    /\ github = GitHubData(<< FilePool[1], FilePool[2] >>, << CommitPool[1] >>,
                           "\n+++ b/src/main.py\n@@ -1,5 +1,6 @@\n+print('test')\n")
    /\ InitCalls

SpecRules == InitRules /\ [][NextRules]_vars

(***************************************************************************)
(* The views that moderate a stored review: review_approve, review_reject  *)
(* and review_post_to_github of views.py, and ReviewViewSet.approve,       *)
(* reject and post_to_github of api_views.py.  A request reads the row,    *)
(* works on its own copy and writes the whole copy back with save(); the   *)
(* call to GitHub lies between the read and the write.  Two clients, one   *)
(* for each set of views, send their requests side by side.                *)
(***************************************************************************)
\* The requests one client sends in a run.
MaxRequests == 2

Clients == {"web", "api"}
ModerationActions == {"approve", "reject", "post_to_github"}

\* request.user of a client: each is logged in as its own user.
UserOf(c) == IF c = "web" THEN 1 ELSE 2

\* request.POST.get('notes', ''): what the instructor writes with each
\* decision; the post request carries none.
NotesOf(action) ==
    IF action = "approve" THEN "Looks good!"
    ELSE IF action = "reject" THEN "Needs more work" ELSE ""

NoRow == [id |-> NoReview, status |-> ""]
NoAnswer == [code |-> NoResponse, status |-> "", messages |-> <<>>]

\* What a view returns: redirect('review_detail') with the messages it
\* queued, or a Response with a 'status' entry.
Redirect(levels) == [code |-> 302, status |-> "", messages |-> levels]
ApiResponse(code, status) == [code |-> code, status |-> status, messages |-> <<>>]
\* An exception no view catches: the framework answers 500.
ServerError == [code |-> 500, status |-> "", messages |-> <<>>]

\* A client's request: what it asked, the row as it was read (loaded), the
\* instance the view works on (self), the result of the call to GitHub and
\* the answer; writes lists the saves the request made, commented tells
\* whether it created a comment.
Request(n, action, post_to_github, user, notes, row) ==
    [requests |-> n, action |-> action, post_to_github |-> post_to_github,
     user |-> user, notes |-> notes, loaded |-> row, self |-> row,
     result |-> EmptyDict, exception |-> "", writes |-> <<>>,
     commented |-> FALSE, messages |-> <<>>, response |-> NoAnswer]

NoRequest == Request(0, "", FALSE, NoUser, "", NoRow)

\* GitHub's store of issue comments, beside what the fetches read.
GitHubIssue(comments) ==
    [files |-> <<>>, commits |-> <<>>, diff |-> "", comments |-> comments]

\* What GitHub answers to the POST of a comment: 201 with the new comment,
\* an error status, or nothing at all.
CommentResponses(comments) ==
    { [status |-> 201, body |-> [id |-> 12345 + Len(comments)]] }
        \cup { [status |-> st, body |-> ErrorBody(st)] : st \in HttpStatuses \ {200} }
        \cup { [status |-> NoResponse, body |-> ""] }

\* GitHubClient.create_issue_comment
create_issue_comment(response) == make_request("/issues/7/comments", response)

\* except GitHubAPIError: the exceptions _make_request raises itself, not
\* the ones requests raises.
IsGitHubAPIError(exception) == exception # "ConnectionError"

\* get_object_or_404(Review, pk=pk); self.get_object()
GetObject(c) ==
    /\ pc[c] \in {"absent", "answered"}
    /\ frame[c].requests < MaxRequests
    /\ \E id \in DOMAIN reviews, action \in ModerationActions,
          post_to_github \in BOOLEAN :
        /\ post_to_github => action = "approve"
        /\ frame' = [frame EXCEPT ![c] =
              Request(frame[c].requests + 1, action, post_to_github,
                      IF action = "post_to_github" THEN NoUser ELSE UserOf(c),
                      NotesOf(action), reviews[id])]
    /\ pc' = [pc EXCEPT ![c] = "loaded"]
    /\ UNCHANGED << branch_rules, pull_request, github, reviews, review_comments,
                    unit, webhook >>

\* self.save() of a view's instance: every field of the row is written.
Save(c, method, row) ==
    /\ reviews' = [reviews EXCEPT ![row.id] = row]
    /\ UNCHANGED << branch_rules, pull_request, github, review_comments, unit, webhook >>

\* What the approve and reject views answer when no posting was asked.
Moderated(c) ==
    IF c = "web" THEN Redirect(<< "success" >>) ELSE ApiResponse(200, "success")

\* review_approve and ReviewViewSet.approve, up to the call to GitHub.
Approve(c) ==
    /\ pc[c] = "loaded"
    /\ frame[c].action = "approve"
    /\ \E now \in Times :
        LET self == approve(frame[c].self, frame[c].user, frame[c].notes, now)
        IN  /\ Save(c, "approve", self)
            /\ frame' = [frame EXCEPT ![c].self = self,
                            ![c].writes = Append(@, "approve"),
                            ![c].messages = IF c = "web" THEN << "success" >> ELSE <<>>,
                            ![c].response = IF frame[c].post_to_github
                                            THEN NoAnswer ELSE Moderated(c)]
            /\ pc' = [pc EXCEPT ![c] = IF frame[c].post_to_github
                                       THEN "posting" ELSE "answered"]

\* review_reject and ReviewViewSet.reject
Reject(c) ==
    /\ pc[c] = "loaded"
    /\ frame[c].action = "reject"
    /\ LET self == reject(frame[c].self, frame[c].user, frame[c].notes)
       IN  /\ Save(c, "reject", self)
           /\ frame' = [frame EXCEPT ![c].self = self,
                           ![c].writes = Append(@, "reject"),
                           ![c].response = Moderated(c)]
    /\ pc' = [pc EXCEPT ![c] = "answered"]

\* What the post views answer to a review that is not approved.
Refused(c) ==
    IF c = "web" THEN Redirect(<< "error" >>) ELSE ApiResponse(400, "error")

\* review_post_to_github and ReviewViewSet.post_to_github: the test of the
\* status.
PostToGithub(c) ==
    /\ pc[c] = "loaded"
    /\ frame[c].action = "post_to_github"
    /\ IF frame[c].self.status # "approved"
       THEN /\ frame' = [frame EXCEPT ![c].response = Refused(c)]
            /\ pc' = [pc EXCEPT ![c] = "answered"]
       ELSE /\ pc' = [pc EXCEPT ![c] = "posting"]
            /\ UNCHANGED frame
    /\ UNCHANGED << branch_rules, pull_request, github, reviews, review_comments,
                    unit, webhook >>

\* What the views answer when the call to GitHub raised GitHubAPIError.
PostFailed(c, action, messages) ==
    IF c = "web" THEN Redirect(Append(messages, "error"))
    ELSE IF action = "approve" THEN ApiResponse(200, "partial")
    ELSE ApiResponse(400, "error")

\* client.create_issue_comment(...) in the four views, with the except
\* clause around it.
CreateIssueComment(c) ==
    /\ pc[c] = "posting"
    /\ \E response \in CommentResponses(github.comments) :
        LET result == create_issue_comment(response)
        IN  /\ github' = IF response.status = 201
                         THEN [github EXCEPT !.comments =
                                  Append(@, [review |-> frame[c].self.id,
                                             id |-> response.body.id])]
                         ELSE github
            /\ IF ~result.raised
               THEN /\ frame' = [frame EXCEPT ![c].result = result.value,
                                              ![c].commented = TRUE]
                    /\ pc' = [pc EXCEPT ![c] = "created"]
               ELSE /\ frame' = [frame EXCEPT
                          ![c].exception = result.exception,
                          ![c].response =
                              IF IsGitHubAPIError(result.exception)
                              THEN PostFailed(c, frame[c].action, frame[c].messages)
                              ELSE ServerError]
                    /\ pc' = [pc EXCEPT ![c] = "answered"]
    /\ UNCHANGED << branch_rules, pull_request, reviews, review_comments, unit, webhook >>

\* What the views answer when the review was posted.
Posted(c, messages) ==
    IF c = "web" THEN Redirect(Append(messages, "success"))
    ELSE ApiResponse(200, "success")

\* review.mark_posted(result.get('id')) and the answer after it.
MarkPosted(c) ==
    /\ pc[c] = "created"
    /\ \E now \in Times :
        LET self == mark_posted(frame[c].self,
                                Get(frame[c].result, "id", NoComment), now)
        IN  /\ Save(c, "mark_posted", self)
            /\ frame' = [frame EXCEPT ![c].self = self,
                            ![c].writes = Append(@, "mark_posted"),
                            ![c].response = Posted(c, frame[c].messages)]
    /\ pc' = [pc EXCEPT ![c] = "answered"]

NextPosting ==
    \E c \in Clients :
        \/ GetObject(c)
        \/ Approve(c)
        \/ Reject(c)
        \/ PostToGithub(c)
        \/ CreateIssueComment(c)
        \/ MarkPosted(c)

\* One review the engine stored, pending, and no comment on GitHub.
InitPosting ==
    /\ branch_rules = {}
    /\ pull_request = PullRequestRow("main", 0)
    /\ github = GitHubIssue(<<>>)
    /\ reviews = << ReviewRow(1, [pull_request |-> 1,
                                  summary |-> [text |-> "Test summary"],
                                  score |-> 75]) >>
    /\ review_comments = <<>>
    /\ pc = [c \in Clients |-> "absent"]
    /\ frame = [c \in Clients |-> NoRequest]
    /\ webhook = NoDelivery
    /\ unit = UnitCall("", <<>>)

SpecPosting == InitPosting /\ [][NextPosting]_vars

(***************************************************************************)
(* Properties of review_pull_request and of the methods it calls.          *)
(***************************************************************************)
\* The review a finished call returned.
ReturnedReview(t) == reviews[frame[t].review]

\* The call has the result of get_expectations.
Resolved(t) ==
    pc[t] \in {"analyze", "evaluate", "synthesize", "create_review", "done", "raised"}

\* The call has the result of evaluate_expectations.
Evaluated(t) == pc[t] \in {"synthesize", "create_review", "done"}

\* The call has the results of the three analyses.
Analyzed(t) == pc[t] \in {"evaluate", "raised"} \/ Evaluated(t)

\* The active rules of one scope whose pattern matches the branch.
ActiveMatches(repository) ==
    { r \in branch_rules :
        /\ r.is_active
        /\ r.repository = repository
        /\ Fnmatch(pull_request.source_branch, r.branch_pattern) }

RepositoryMatches == ActiveMatches(pull_request.repository)
GlobalMatches == ActiveMatches(NoRepository)
Winners == IF RepositoryMatches # {} THEN RepositoryMatches ELSE GlobalMatches
Ids(rules) == { r.id : r \in rules }
ChecksOf(expectations) == Get(expectations, "checks", <<>>)

\* C1: if a provider fetch (file list, commits or diff) fails, the call does
\* not raise and does not go on: it returns a Review with score 0, rating
\* needs_work and exactly one feedback item, of category 'error'.
C1_FetchFailureDegrades ==
    \A t \in Callers :
        frame[t].failed_fetch # "" =>
            /\ pc[t] \in {"fetch_failed", "degraded_done"}
            /\ pc[t] = "degraded_done" =>
                /\ frame[t].review \in 1..Len(reviews)
                /\ ReturnedReview(t).pull_request = pull_request.number
                /\ ReturnedReview(t).score = 0
                /\ ReturnedReview(t).overall_rating = "needs_work"
                /\ Len(ReturnedReview(t).feedback_items) = 1
                /\ ReturnedReview(t).feedback_items[1].category = "error"

\* C2: every call of review_pull_request, whatever the provider answers,
\* whatever rules are stored and whatever the files, commits and diff are,
\* ends without raising and with a persisted Review of the pull request:
\* no stage after the fetches fails.
C2_EveryCallPersistsReview ==
    \A t \in Callers :
        /\ pc[t] # "raised"
        /\ pc[t] \in {"done", "degraded_done"} =>
            /\ frame[t].review \in 1..Len(reviews)
            /\ ReturnedReview(t).pull_request = pull_request.number

C4_ScoreIsSumOfPassedWeights ==
    \A t \in Callers :
        Evaluated(t) =>
            LET checks == ChecksOf(frame[t].expectations.dict)
                weight(i) == Get(checks[i], "weight", 10)
                ev == frame[t].evaluation
            IN  (\A i \in 1..Len(checks) : weight(i) > 0) =>
                    /\ Len(ev.checks) = Len(checks)
                    /\ \A i \in 1..Len(checks) : ev.checks[i].weight = weight(i)
                    /\ ev.score = SumSeq([i \in 1..Len(ev.checks) |->
                                            IF ev.checks[i].passed
                                            THEN ev.checks[i].weight ELSE 0])
                    /\ ev.max_score = SumSeq([i \in 1..Len(checks) |-> weight(i)])
                    /\ ev.score <= ev.max_score

\* An evaluation of positive weights with a passed and a failed check.
C4_Witness ==
    \E t \in Callers :
        /\ Evaluated(t)
        /\ \A i \in 1..Len(ChecksOf(frame[t].expectations.dict)) :
                Get(ChecksOf(frame[t].expectations.dict)[i], "weight", 10) > 0
        /\ \E i, j \in 1..Len(frame[t].evaluation.checks) :
                /\ frame[t].evaluation.checks[i].passed
                /\ ~frame[t].evaluation.checks[j].passed

\* C5: calculate_rating(score, max_score) is good when max_score = 0;
\* otherwise, with percentage = 100 * score / max_score, it is excellent iff
\* percentage >= 90, good iff 70 <= percentage < 90, needs_work iff
\* 50 <= percentage < 70 and poor iff percentage < 50.
C5_RatingBuckets ==
    (unit.method = "calculate_rating" /\ unit.result # Pending) =>
        LET score == unit.args[1]
            max_score == unit.args[2]
            rating == unit.result
        IN  IF max_score = 0 THEN rating = "good"
            ELSE /\ rating = "excellent" <=> 100 * score >= 90 * max_score
                 /\ rating = "good" <=>
                        (70 * max_score <= 100 * score /\ 100 * score < 90 * max_score)
                 /\ rating = "needs_work" <=>
                        (50 * max_score <= 100 * score /\ 100 * score < 70 * max_score)
                 /\ rating = "poor" <=> 100 * score < 50 * max_score

\* A call on the lower bound of a bucket: exactly 90 percent.
C5_Witness ==
    /\ unit.method = "calculate_rating"
    /\ unit.args = <<9, 10>>
    /\ unit.result = "excellent"

\* C6: a review evaluated against an ExpectationSet without checks has
\* score 100 and rating good.
C6_EmptySetScoresHundred ==
    \A t \in Callers :
        (pc[t] = "done" /\ ChecksOf(frame[t].expectations.dict) = <<>>) =>
            /\ ReturnedReview(t).score = 100
            /\ ReturnedReview(t).overall_rating = "good"

ChangedLines(files) ==
    SumSeq([i \in 1..Len(files) |-> files[i].additions + files[i].deletions])

\* C8: generate_feedback emits, in this order, one warning item per failed
\* check in check order, one success item per passed check in check order,
\* the first 5 debug findings at most as error items, the first 5 marker
\* comment findings at most as info items, and one size warning iff more
\* than 500 lines changed.
C8_FeedbackOrder ==
    \A t \in Callers :
        pc[t] \in {"create_review", "done"} =>
            LET feedback == frame[t].feedback
                checks == frame[t].evaluation.checks
                failed == SelectSeq(checks, LAMBDA c : ~c.passed)
                passed == SelectSeq(checks, LAMBDA c : c.passed)
                debugs == frame[t].diff_analysis.debug_occurrences
                todos == frame[t].diff_analysis.todos_added
                n_failed == Len(failed)
                n_passed == Len(passed)
                n_debug == IF Len(debugs) > 5 THEN 5 ELSE Len(debugs)
                n_todo == IF Len(todos) > 5 THEN 5 ELSE Len(todos)
                n_size == IF ChangedLines(frame[t].files) > 500 THEN 1 ELSE 0
                findings == n_failed + n_passed + n_debug + n_todo
            IN  /\ Len(feedback) = findings + n_size
                /\ \A i \in 1..n_failed :
                        /\ feedback[i].severity = "warning"
                        /\ feedback[i].category = "expectation"
                        /\ feedback[i].title = failed[i].description
                /\ \A i \in 1..n_passed :
                        /\ feedback[n_failed + i].severity = "success"
                        /\ feedback[n_failed + i].category = "expectation"
                        /\ feedback[n_failed + i].title = passed[i].description
                /\ \A i \in 1..n_debug :
                        /\ feedback[n_failed + n_passed + i].severity = "error"
                        /\ feedback[n_failed + n_passed + i] = DebugItem(debugs[i])
                /\ \A i \in 1..n_todo :
                        /\ feedback[n_failed + n_passed + n_debug + i].severity = "info"
                        /\ feedback[n_failed + n_passed + n_debug + i] = TodoItem(todos[i])
                /\ n_size = 1 =>
                        /\ feedback[findings + 1].category = "pr_size"
                        /\ feedback[findings + 1].severity = "warning"

\* Feedback of failed and passed checks, more than 5 findings of either kind
\* and more than 500 changed lines.
C8_Witness ==
    \E t \in Callers :
        /\ pc[t] = "done"
        /\ Len(frame[t].diff_analysis.debug_occurrences) > 5
        /\ Len(frame[t].diff_analysis.todos_added) > 5
        /\ ChangedLines(frame[t].files) > 500
        /\ frame[t].evaluation.passed > 0
        /\ frame[t].evaluation.failed > 0
        /\ Len(frame[t].feedback) = Len(frame[t].evaluation.checks) + 11

\* No path of the list names a test.
NoTestFile(files) ==
    \A i \in 1..Len(files) : ~Contains(Lower(files[i].filename), "test")

\* A call that reviewed the pull request of the end-to-end property.
EndToEndCase(t) ==
    /\ pc[t] = "done"
    /\ pull_request.source_branch = "feature/login"
    /\ Len(pull_request.description) = 40
    /\ frame[t].expectations.dict = DEFAULT_EXPECTATIONS.feature
    /\ Len(frame[t].commits) = 1
    /\ frame[t].commits[1].message = "wip"
    /\ NoTestFile(frame[t].files)

\* C9: for a pull request on branch feature/login evaluated against the
\* built-in feature default, with a description of 40 characters and the
\* single commit message "wip", every list of changed files without a test
\* file and every diff give a review rated needs_work or poor whose feedback
\* has a warning item for the failed has_tests check.
C9_FeatureWithoutTests ==
    \A t \in Callers :
        EndToEndCase(t) =>
            /\ ReturnedReview(t).overall_rating \in {"needs_work", "poor"}
            /\ \E i \in 1..Len(ReturnedReview(t).feedback_items) :
                    /\ ReturnedReview(t).feedback_items[i].severity = "warning"
                    /\ ReturnedReview(t).feedback_items[i].title
                            = "New features should include tests"
            /\ \E i \in 1..Len(ReturnedReview(t).expectations_met.checks) :
                    /\ ReturnedReview(t).expectations_met.checks[i].name = "has_tests"
                    /\ ~ReturnedReview(t).expectations_met.checks[i].passed

\* Such a review with the best rating the case allows, of changed files.
C9_Witness ==
    \E t \in Callers :
        /\ EndToEndCase(t)
        /\ Len(frame[t].files) > 0
        /\ ReturnedReview(t).overall_rating = "needs_work"

\* C10: analyze_files puts every changed file in exactly one of test_files,
\* doc_files and source_files, a path that matches a test pattern and a doc
\* pattern in test_files only, so that the three lengths add up to
\* total_files.
C10_ExactlyOneBucket ==
    \A t \in Callers :
        Analyzed(t) =>
            LET analysis == frame[t].file_analysis
            IN  /\ Len(analysis.test_files) + Len(analysis.doc_files)
                        + Len(analysis.source_files) = analysis.total_files
                /\ \A i \in 1..Len(frame[t].files) :
                        LET filename == frame[t].files[i].filename
                        IN  ~(InSeq(filename, analysis.test_files)
                                /\ InSeq(filename, analysis.doc_files))

\* The call of one engine method has returned.
Called(method) == unit.method = method /\ unit.returned

\* An added line of a diff with a debug statement in it.
IsDebugLine(line) ==
    /\ StartsWith(line, "+")
    /\ ~StartsWith(line, "+++")
    /\ \E i \in 1..Len(DEBUG_PATTERNS) :
            Contains(Lower(line), Lower(DEBUG_PATTERNS[i]))

DebugLines(diff) ==
    SelectSeq(Split(diff, "\n"), IsDebugLine)

\* C11: analyze_diff reports exactly one debug finding per added line that
\* matches a debug pattern: N matching added lines give N findings, with
\* line numbers that never decrease in scan order within one file.
C11_OneFindingPerDebugLine ==
    Called("analyze_diff") =>
        LET findings == unit.result.debug_occurrences
        IN  /\ Len(findings) = Len(DebugLines(unit.args[1]))
            /\ \A i \in 1..Len(findings) :
                    findings[i].content = Strip(DropFirst(DebugLines(unit.args[1])[i], 1))

\* The part of a message before its first newline.
BeforeNewline(message) ==
    LET breaks == { i \in 1..Len(message) : CharAt(message, i) = "\n" }
    IN  IF breaks = {} THEN message
        ELSE SubSeq(message, 1, (CHOOSE i \in breaks : \A j \in breaks : i <= j) - 1)

\* The message holds "#" and a digit, or close(s), fixe(s) or resolve(s) in
\* any case, white space and a digit.
HasIssueReference(message) ==
    LET n == Len(message)
        digit(i) == i <= n /\ CharAt(message, i) \in DigitSet
    IN  \/ \E i \in 1..n : CharAt(message, i) = "#" /\ digit(i + 1)
        \/ \E i \in 1..n, j \in 1..n :
                /\ i <= j
                /\ Lower(SubSeq(message, i, j)) \in
                        {"close", "closes", "fixe", "fixes", "resolve", "resolves"}
                /\ \E k \in (j + 1)..n :
                        /\ \A q \in (j + 1)..k : CharAt(message, q) \in {" ", "\n", "\t"}
                        /\ digit(k + 1)

\* C12: analyze_commits counts a commit as descriptive iff the part of its
\* message before the first newline has at least 10 characters, as short
\* otherwise, so that the two counts add up to total_commits; and
\* references_issues is true iff some commit's whole message holds an issue
\* reference, which is iff issue_references is not empty.
C12_CommitCounts ==
    Called("analyze_commits") =>
        LET commits == unit.args[1]
            analysis == unit.result
            long == { i \in 1..Len(commits) : Len(BeforeNewline(commits[i].message)) >= 10 }
        IN  /\ analysis.total_commits = Len(commits)
            /\ analysis.descriptive_commits = Cardinality(long)
            /\ analysis.short_commits = Len(commits) - Cardinality(long)
            /\ analysis.descriptive_commits + analysis.short_commits
                    = analysis.total_commits
            /\ \A i \in 1..Len(commits) : analysis.commits[i].is_descriptive <=> i \in long
            /\ analysis.references_issues <=>
                    \E i \in 1..Len(commits) : HasIssueReference(commits[i].message)
            /\ analysis.references_issues <=> analysis.issue_references # <<>>

\* A first line of exactly 10 characters beside a short first line whose
\* message refers to an issue in its body.
C12_Witness ==
    /\ Called("analyze_commits")
    /\ Len(unit.args[1]) = 2
    /\ unit.args[1][1].message = "exactly 10"
    /\ unit.args[1][2].message = "fix\n\ncloses 45"
    /\ unit.result.descriptive_commits = 1
    /\ unit.result.short_commits = 1
    /\ unit.result.references_issues

\* The synonym prefixes of each tag.
TagPrefixes ==
    [feature |-> {"feature/", "feat/", "features/"},
     bugfix |-> {"bugfix/", "bug/", "fix/"},
     hotfix |-> {"hotfix/", "hot/", "emergency/"},
     release |-> {"release/", "releases/", "rel/"},
     refactor |-> {"refactor/", "refactoring/", "cleanup/"}]

\* The name starts, in any case, with a synonym prefix of the tag.
HasPrefixOf(name, tag) ==
    \E prefix \in TagPrefixes[tag] :
        /\ Len(name) >= Len(prefix)
        /\ Lower(SubSeq(name, 1, Len(prefix))) = prefix

\* C13: get_branch_type maps a branch name that starts, in any case, with a
\* synonym prefix of a tag to that tag and every other name to 'other'; its
\* result is one of the six tags.
C13_BranchTypeByPrefix ==
    Called("get_branch_type") =>
        /\ unit.result \in (DOMAIN TagPrefixes) \cup {"other"}
        /\ \A tag \in DOMAIN TagPrefixes :
                unit.result = tag <=> HasPrefixOf(unit.args[1], tag)
        /\ unit.result = "other" <=>
                \A tag \in DOMAIN TagPrefixes : ~HasPrefixOf(unit.args[1], tag)

\* A name in upper case with the prefix of a synonym.
C13_Witness ==
    /\ Called("get_branch_type")
    /\ unit.args[1] = "FEAT/login"
    /\ unit.result = "feature"

\* C14: the branch_type a PullRequest exposes is one of the six tags and is
\* the tag get_branch_type returns for the same source branch.
C14_BranchTypePropertyIsTag ==
    Called("branch_type") =>
        /\ unit.result \in {"feature", "bugfix", "hotfix", "release", "refactor", "other"}
        /\ unit.result = get_branch_type(unit.args[1])

\* The names evaluate_expectations has a policy for.
PolicyNames ==
    { "has_tests", "has_documentation", "has_regression_test", "reasonable_size",
      "focused_changes", "minimal_changes", "descriptive_commits", "no_debug_code",
      "references_issue", "has_description", "no_new_features", "version_bump",
      "changelog_updated", "no_behavior_change", "improves_quality",
      "follows_conventions", "critical_only", "documentation_updated" }

\* The expectations without the checks whose names have no policy.
WithoutUnknownChecks(expectations) ==
    [k \in DOMAIN expectations |->
        IF k = "checks"
        THEN SelectSeq(expectations.checks, LAMBDA c : c.name \in PolicyNames)
        ELSE expectations[k]]

\* C15: a check whose name has no policy is not rejected and does not fail:
\* its result has passed = true and details "Check not implemented", and its
\* weight is part of score and of max_score.
C15_UnknownCheckPasses ==
    \A t \in Callers :
        Evaluated(t) =>
            LET expectations == frame[t].expectations.dict
                checks == ChecksOf(expectations)
                unknown == { i \in 1..Len(checks) : checks[i].name \notin PolicyNames }
                ev == frame[t].evaluation
                known == evaluate_expectations(WithoutUnknownChecks(expectations),
                            frame[t].file_analysis, frame[t].diff_analysis,
                            frame[t].commit_analysis, pull_request)
                weights == SumSeq([i \in 1..Len(checks) |->
                                    IF i \in unknown THEN Get(checks[i], "weight", 10) ELSE 0])
            IN  unknown # {} =>
                    /\ Len(ev.checks) = Len(checks)
                    /\ \A i \in unknown :
                            /\ ev.checks[i].name = checks[i].name
                            /\ ev.checks[i].passed
                            /\ ev.checks[i].details = "Check not implemented"
                            /\ ev.checks[i].weight = Get(checks[i], "weight", 10)
                    /\ ev.score = known.score + weights
                    /\ ev.max_score = known.max_score + weights
                    /\ ev.failed = known.failed

\* An evaluation with a check without a policy beside a check that fails.
C15_Witness ==
    \E t \in Callers :
        /\ pc[t] = "done"
        /\ \E i, j \in 1..Len(frame[t].evaluation.checks) :
                /\ frame[t].evaluation.checks[i].name = "license_header"
                /\ frame[t].evaluation.checks[i].passed
                /\ ~frame[t].evaluation.checks[j].passed

\* The call has left the three fetches behind without entering the except
\* branch.
PastFetching(t) ==
    pc[t] \in {"match_rule", "get_expectations", "analyze", "evaluate", "synthesize",
               "create_review", "done", "raised"}

\* C16: a review goes on from the fetches to the analysis only if GitHub
\* supplied the file list, the commits and the diff; if it did not supply one
\* of them, the diff request answered with an error included, the review
\* ends degraded and nothing is analysed in place of the missing data.
C16_AnalysisOnlyOfFetchedData ==
    \A t \in Callers :
        /\ PastFetching(t) =>
            /\ frame[t].failed_fetch = ""
            /\ frame[t].files = github.files
            /\ frame[t].commits = github.commits
            /\ frame[t].diff = github.diff
        /\ (frame[t].failed_fetch # "" /\ pc[t] # "fetch_failed") =>
            /\ pc[t] = "degraded_done"
            /\ frame[t].file_analysis = EmptyDict
            /\ frame[t].diff_analysis = EmptyDict
            /\ frame[t].commit_analysis = EmptyDict

\* C19: after any sequence of approve, reject and mark_posted on a review,
\* the review the last call was made on has what the call sets: approve
\* the status approved, the user, the notes and an approval time; reject
\* the status rejected and the user; mark_posted the status posted, the
\* comment id and a posting time.  So every approved review has an approval
\* time and every posted review a posting time.
C19_ReviewOperations ==
    /\ Called("approve") =>
          LET r == reviews[unit.args[1]]
          IN  /\ r.status = "approved"
              /\ r.reviewed_by = unit.args[2]
              /\ r.instructor_notes = unit.args[3]
              /\ r.approved_at # NoTime
    /\ Called("reject") =>
          LET r == reviews[unit.args[1]]
          IN  r.status = "rejected" /\ r.reviewed_by = unit.args[2]
    /\ Called("mark_posted") =>
          LET r == reviews[unit.args[1]]
          IN  /\ r.status = "posted"
              /\ r.github_comment_id = unit.args[2]
              /\ r.posted_at # NoTime
    /\ \A i \in DOMAIN reviews :
          /\ reviews[i].status = "approved" => reviews[i].approved_at # NoTime
          /\ reviews[i].status = "posted" => reviews[i].posted_at # NoTime

\* A review approved after it was posted and rejected: the last call is
\* approve, and the marks of the earlier calls are still on the row.
C19_Witness ==
    /\ Called("approve")
    /\ reviews[unit.args[1]].status = "approved"
    /\ reviews[unit.args[1]].posted_at # NoTime
    /\ reviews[unit.args[1]].github_comment_id = 12345
    /\ reviews[unit.args[1]].instructor_notes = "Looks good!"

\* C20: a pull_request delivery that was handled (its log is marked
\* processed) created exactly one review when its action is opened,
\* synchronize or reopened, and none when it is another action, whether or
\* not the pull request was stored before.
C20_OneReviewPerReviewedDelivery ==
    webhook.stage = "processed" =>
        Len(webhook.reviews) = IF webhook.action \in ReviewedActions THEN 1 ELSE 0

\* The review endpoint's call and the delivery's call of
\* review_pull_request for the same pull request have both ended.
BothTriggersEnded ==
    /\ pc["manual"] \in ReturnedStates \cup {"raised"}
    /\ webhook.stage \in {"processed", "failed"}
    /\ webhook.calls = 1

\* C17: when a manual review and a webhook-driven review of one pull
\* request overlap, both run to completion and each persists its own
\* review: the pull request ends with two reviews, one returned to each
\* caller, each as its caller created it.
C17_OverlappingReviewsBothPersist ==
    BothTriggersEnded =>
        /\ pc["manual"] \in ReturnedStates
        /\ webhook.stage = "processed"
        /\ Len(reviews) = 2
        /\ Len(webhook.reviews) = 1
        /\ frame["manual"].review \in DOMAIN reviews
        /\ webhook.reviews[1] \in DOMAIN reviews
        /\ frame["manual"].review # webhook.reviews[1]
        /\ \A i \in DOMAIN reviews :
              reviews[i].id = i /\ reviews[i].pull_request = pull_request.number

\* The call of caller t returned a review made from the data GitHub holds:
\* every fetch was answered with status 200.
ReviewedFetchedData(t) ==
    frame[t].review # NoReview /\ frame[t].failed_fetch = ""

\* C18: two reviews of the same pull request, made from the same provider
\* data under the same stored rules, select the same rule (also when
\* several rules of one scope match) and produce the same check results,
\* score, rating and feedback; the stored rules are as they were.
C18_SameInputsSameReview ==
    /\ branch_rules \in WebhookRules
    /\ (ReviewedFetchedData("manual") /\ ReviewedFetchedData("webhook")) =>
          /\ frame["manual"].branch_rule = frame["webhook"].branch_rule
          /\ frame["manual"].expectations.matched = frame["webhook"].expectations.matched
          /\ frame["manual"].evaluation = frame["webhook"].evaluation
          /\ frame["manual"].rating = frame["webhook"].rating
          /\ frame["manual"].feedback = frame["webhook"].feedback

\* The expectation set the call evaluated is not empty and every check of
\* it has a positive weight.
PositiveWeights(t) ==
    LET checks == ChecksOf(frame[t].expectations.dict)
    IN  /\ checks # <<>>
        /\ \A i \in 1..Len(checks) : Get(checks[i], "weight", 10) > 0

\* C25: a review that reaches Done with a non-empty ExpectationSet of
\* positive weights stores an integer score in 0..100 equal to
\* floor(100 * score / max_score), and its stored rating is the bucket of
\* that stored score: excellent from 90, good from 70, needs_work from 50,
\* poor below.
C25_StoredScoreIsFloorOfPercentage ==
    \A t \in Callers :
        (pc[t] = "done" /\ PositiveWeights(t)) =>
            LET stored == ReturnedReview(t).score
                rating == ReturnedReview(t).overall_rating
                ev == frame[t].evaluation
            IN  /\ stored \in 0..100
                /\ stored = (100 * ev.score) \div ev.max_score
                /\ rating = "excellent" <=> stored >= 90
                /\ rating = "good" <=> stored \in 70..89
                /\ rating = "needs_work" <=> stored \in 50..69
                /\ rating = "poor" <=> stored < 50

\* A line of a diff that adds a line to a file.
IsAddedLine(line) == StartsWith(line, "+") /\ ~StartsWith(line, "+++")

\* The largest index below i of a line of `lines` starting with `prefix`,
\* 0 when there is none.
LastBefore(lines, i, prefix) ==
    LET found == { j \in 1..(i - 1) : StartsWith(lines[j], prefix) }
    IN  IF found = {} THEN 0 ELSE CHOOSE j \in found : \A k \in found : k <= j

\* The path of the most recent file header before line i.
FileOfLine(lines, i) ==
    LET f == LastBefore(lines, i, "+++ b/")
    IN  IF f = 0 THEN NoFile ELSE DropFirst(lines[f], 6)

\* Line i comes after a hunk header of the file it belongs to.
InHunk(lines, i) ==
    LastBefore(lines, i, "@@") > LastBefore(lines, i, "+++ b/")

\* The new-file start of a hunk header "@@ -a,b +c,d @@": c.
NewFileStart(header) ==
    LET plus == { i \in 1..(Len(header) - 1) : SubSeq(header, i, i + 1) = " +" }
        first == CHOOSE i \in plus : \A j \in plus : i <= j
    IN  ParseInt(DigitRun(DropFirst(header, first + 1)), 0)

\* n + k - 1 for line i, the k-th added line after a hunk header starting
\* at n.
NumberOfLine(lines, i) ==
    LET h == LastBefore(lines, i, "@@")
    IN  NewFileStart(lines[h])
            + Cardinality({ j \in (h + 1)..(i - 1) : IsAddedLine(lines[j]) })

\* The finding is the one due for line i.
FindingOfLine(finding, lines, i) ==
    /\ finding.file = FileOfLine(lines, i)
    /\ finding.content = Strip(DropFirst(lines[i], 1))
    /\ InHunk(lines, i) => finding.line = NumberOfLine(lines, i)

NamesFeature(message) ==
    \E k \in {"add", "new", "implement", "create"} :
        Contains(Lower(BeforeNewline(message)), k)

\* C27: for every commit list, the no_new_features check passes iff no
\* commit message's first line, in lower case, holds any of add, new,
\* implement, create, wherever in the first line it stands.
C27_NoNewFeaturesReadsFirstLine ==
    Called("no_new_features") =>
        (unit.result.checks[1].passed
            <=> \A i \in 1..Len(unit.args[1]) : ~NamesFeature(unit.args[1][i].message))

\* C21: the branch_rule recorded on a review is the rule whose expectations
\* were evaluated for it, and it is null exactly when the built-in default
\* was evaluated, also when rules are created, edited, deactivated or
\* deleted while the review runs.
C21_RecordedRuleIsEvaluatedRule ==
    \A t \in Callers :
        pc[t] = "done" =>
            LET e == frame[t].expectations
            IN  /\ e.origin = "rule" => ReturnedReview(t).branch_rule = e.matched
                /\ e.origin = "default" <=> ReturnedReview(t).branch_rule = NoRule

\* The delivery was sent to a server with a webhook secret, and its
\* signature header is missing or is not the HMAC-SHA256 of its body.
BadlySigned ==
    /\ webhook.secret # ""
    /\ webhook.signature # "sha256=" \o Hmac(webhook.secret, webhook.body)

\* C28: with a webhook secret configured, a delivery whose
\* X-Hub-Signature-256 header is missing or is not the HMAC-SHA256 of the
\* body is answered 403 and changes no state: no WebhookLog is written, no
\* PullRequest is created or updated and no Review is generated.
C28_BadSignatureRefused ==
    (webhook.stage \notin {"none", "posted"} /\ BadlySigned) =>
        /\ webhook.response = 403
        /\ webhook.log = NoLog
        /\ ~webhook.created /\ webhook.status = ""
        /\ webhook.calls = 0
        /\ reviews = <<>>

\* C29: after the handling of a delivery that passed the test of its
\* signature, its WebhookLog is marked processed, with processed_at set, or
\* carries an error message that is not empty; processed is set only when
\* the handling ended without an exception, and a delivery answered with
\* status ok has its log marked processed.
C29_LogTellsOutcome ==
    (webhook.stage \in {"processed", "answered", "failed"}) =>
        /\ \/ webhook.log.processed /\ webhook.log.processed_at # NoTime
           \/ webhook.log.error_message # ""
        /\ webhook.log.processed =>
              webhook.stage # "failed" /\ webhook.log.error_message = ""
        /\ webhook.response = 200 => webhook.log.processed

(***************************************************************************)
(* Properties of the views that approve, reject and post a review.         *)
(***************************************************************************)
\* The comments GitHub holds for a review.
CommentsOn(id) == { i \in DOMAIN github.comments : github.comments[i].review = id }

\* C22: for each Review at most one summary comment is ever created on
\* GitHub, whatever approve (with or without post_to_github), reject and
\* post-to-GitHub requests the web views and the API serve, in whatever
\* order and interleaving.
C22_AtMostOneCommentPerReview ==
    \A id \in DOMAIN reviews : Cardinality(CommentsOn(id)) <= 1

\* A post-to-GitHub request that read a review that was not approved.
PostOfUnapproved(c) ==
    frame[c].action = "post_to_github" /\ frame[c].loaded.status # "approved"

\* C23: the status of a Review becomes posted only from approved and only
\* after a GitHub comment was created for it; a post-to-GitHub request on a
\* review that is pending, rejected or posted is refused, creates no
\* comment and writes nothing.
C23_PostedOnlyFromApproved ==
    [][ /\ \A id \in DOMAIN reviews :
              (reviews'[id] # reviews[id] /\ reviews'[id].status = "posted") =>
                  /\ reviews[id].status = "approved"
                  /\ \E i \in CommentsOn(id) :
                        github.comments[i].id = reviews'[id].github_comment_id
        /\ \A c \in Clients :
              PostOfUnapproved(c)' =>
                  /\ pc'[c] \in {"loaded", "answered"}
                  /\ ~frame'[c].commented
                  /\ frame'[c].writes = <<>>
                  /\ pc'[c] = "answered" =>
                        IF c = "web"
                        THEN frame'[c].response.messages = << "error" >>
                        ELSE frame'[c].response.code = 400 ]_vars

\* The other client.
Other(c) == CHOOSE d \in Clients : d # c

\* C24: when creating the GitHub comment fails, in a post request or in an
\* approve with post_to_github, the review stays approved with posted_at
\* and github_comment_id as they were, and the view reports the failure in
\* its answer instead of raising.
C24_FailedPostLeavesApproved ==
    \A c \in Clients :
        (pc[c] = "answered" /\ frame[c].exception # "") =>
            /\ frame[c].self.status = "approved"
            /\ frame[c].self.posted_at = frame[c].loaded.posted_at
            /\ frame[c].self.github_comment_id = frame[c].loaded.github_comment_id
            /\ \A i \in DOMAIN frame[c].writes : frame[c].writes[i] # "mark_posted"
            /\ frame[Other(c)].requests = 0 => reviews[frame[c].self.id] = frame[c].self
            /\ frame[c].response.code # 500
            /\ IF c = "web"
               THEN frame[c].response.messages[Len(frame[c].response.messages)] = "error"
               ELSE frame[c].response.status \in {"partial", "error"}

====
